---- MODULE Spec2Model ----
(***************************************************************************)
(* SheepCat-TrackingMyWork: the CSV todo repository (TodoRepository) as a  *)
(* state machine.  The backing CSV file is a list of rows, each row a list *)
(* of strings (what csv.reader returns and csv.writer takes); the archive  *)
(* is a list of written lines.  Column positions are 1-based here, 0-based *)
(* in the Python source: row[0] is r[1], row[3] is r[4].                   *)
(***************************************************************************)
EXTENDS Integers, Sequences, FiniteSets, TLC

VARIABLES
    file,        \* the CSV file at csv_file_path: [exists, rows]
    archive,     \* the Markdown archive document: [exists, lines]
    today,       \* the calendar day of the system clock (a day number)
    pre,         \* history: the CSV file when the last operation was called
    preArchive,  \* history: the archive document when the last operation was called
    op,          \* history: the last operation, its arguments and its return value
    assigned,    \* history: the ids add_todo has assigned so far
    addRun,      \* history: the ids assigned by the add_todo calls made since
                 \* the last call of another operation, in call order
    answer,      \* history: the list the last call returned, when it was a query
    archivedOn,  \* history: the pairs <<id, day>> of the ids archive_done_todos
                 \* has reset to Pending and the day of the last call that did
    threads,     \* the calls in progress on the repository, one per thread:
                 \* where each is, the rows it read and what it will write
    mutex,       \* whether the callers hold a lock around every repository call
    worklog,     \* the rows of today's work log, in file order
    unfinished,  \* what the last unfinished-session check returned
    app,         \* WorkLoggerApp: the tracking and hyper focus fields and the
                 \* callbacks Tk has pending
    extract,     \* the last extract_due call: its text, reference date, result
    hourly       \* WorkLoggerApp: the tasks of the current hour, the check-in
                 \* in progress and the thread writing the hourly summary

vars == <<file, archive, today, pre, preArchive, op, assigned, addRun,
          answer, archivedOn, threads, mutex, worklog, unfinished, app, extract,
          hourly>>

----------------------------------------------------------------------------
(* Bounds of the model *)

\* most data rows the model lets add_todo grow the file to
MaxRows == 3
\* largest numeric id the model lets add_todo assign
MaxId == 3
\* last day the clock reaches (days are 0..MaxDay)
MaxDay == 1
\* most dated sections the model lets the archive document grow to
MaxArchive == 1
\* most data rows in the specification with commitments
MaxCommitRows == 2
\* most data rows in the specification with archiving
MaxArchiveRows == 2
\* most data rows in the specification with any caller's inputs
MaxCallerRows == 2
\* most data rows and dated archive sections in the specification with
\* I/O failures
MaxIORows == 1
MaxIOArchive == 1
\* most data rows and dated archive sections in the specification with
\* repeated calls
MaxRetryRows == 2
MaxRetryArchive == 1
\* most data rows an add of a thread starts from, the largest id the
\* threads pass, and the calls each thread makes
MaxThreadRows == 2
MaxThreadId == 2
MaxThreadCalls == 2
\* most data rows, and most dated sections of the archive document, in
\* the specification with failed archive calls tried again
MaxFailRows == 1
MaxFailArchive == 2
\* most data rows in the specification with files of older versions
MaxMigrateRows == 2
\* most data rows in the specification with the process dying
MaxCrashRows == 2
\* most words of a text given to extract_due
MaxWords == 2
\* latest reference date given to extract_due
MaxRefDay == 1
\* latest time of the tracker's clock
MaxNow == 3
\* most tracking sessions started
MaxSessions == 2
\* longest timed hyper focus
MaxFocus == 2
\* most tasks added in an hour
MaxHourTasks == 2
\* latest time of the clock of the hourly bookkeeping
MaxHourNow == 3
\* most rows of a day's work log
MaxLogRows == 4
\* latest start time of a work-log row
MaxLogTime == 3
\* most data rows in the specification with the due-today query
MaxDueRows == 2
\* most data rows in the specification with the active list
MaxActiveRows == 2
\* most dated sections of the archive in the specification with the
\* active list
MaxActiveArchive == 1
\* last day of the specification with the due-today query: days 0..6 are
\* the seven weekdays
MaxWeekDay == 6

----------------------------------------------------------------------------
(* Strings *)

\* TodoRepository.HEADERS
HEADERS ==
    <<"ID", "Task", "Priority", "Status", "Created", "Notes",
      "Repeat", "Days", "CommittedAt", "LastCompleted">>

\* the header an older version of the program wrote (six columns)
LegacyHeader ==
    <<"ID", "Task", "Priority", "Status", "Created", "Notes">>

\* HEADERS.index(name), 1-based
HeaderIndex(name) ==
    CHOOSE i \in 1..Len(HEADERS) : HEADERS[i] = name

\* str(n) for the integers the model reaches
NumStr ==
    <<"1", "2", "3", "4", "5", "6", "7", "8", "9">>

\* str(n)
Str(n) ==
    NumStr[n]

\* whether int(s) succeeds (otherwise it raises ValueError)
IsInt(s) ==
    \E n \in 1..Len(NumStr) : NumStr[n] = s

\* int(s), for s with IsInt(s)
ParseInt(s) ==
    CHOOSE n \in 1..Len(NumStr) : NumStr[n] = s

\* datetime.date.today().isoformat() and strftime("%Y-%m-%d") on day d
DateStr(d) ==
    <<"2024-01-01", "2024-01-02", "2024-01-03", "2024-01-04", "2024-01-05",
      "2024-01-06", "2024-01-07", "2024-01-08", "2024-01-09">>[d + 1]

\* datetime.datetime.now().strftime("%Y-%m-%d %H:%M:%S") on day d
TimeStr(d) ==
    <<"2024-01-01 08:00:00", "2024-01-02 08:00:00", "2024-01-03 08:00:00",
      "2024-01-04 08:00:00", "2024-01-05 08:00:00", "2024-01-06 08:00:00",
      "2024-01-07 08:00:00", "2024-01-08 08:00:00", "2024-01-09 08:00:00">>[d + 1]

\* Python's None as a field value of csv.DictReader (restval)
NoneVal ==
    "<None>"

Range(s) ==
    {s[i] : i \in 1..Len(s)}

----------------------------------------------------------------------------
(* Internal helpers of TodoRepository *)

\* the slice rows[1:]: the rows after the first, [] for an empty list
Rest(rows) ==
    IF rows = <<>> THEN <<>> ELSE Tail(rows)

\* _read_rows: all raw rows, [HEADERS] when the file does not exist
ReadRows(f) ==
    IF f.exists THEN f.rows ELSE <<HEADERS>>

\* _pad_row: row + [""] * (len(HEADERS) - len(row)); a list times a
\* negative number is the empty list
PadRow(row) ==
    IF Len(row) >= Len(HEADERS) THEN row
    ELSE row \o [i \in 1..(Len(HEADERS) - Len(row)) |-> ""]

\* the integers _next_id collects: int(row[0]) of every non-empty data row
\* whose first field parses
NumericIds(rows) ==
    {ParseInt(rows[i][1]) :
        i \in {j \in 2..Len(rows) : rows[j] # <<>> /\ IsInt(rows[j][1])}}

\* _next_id without the "+ 1"
NextIdNumNoIncrement(rows) ==
    IF NumericIds(rows) = {} THEN 1 ELSE (CHOOSE m \in NumericIds(rows) : \A x \in NumericIds(rows) : x <= m)

\* _next_id, as an integer: max(ids) + 1, or 1 when there are none
NextIdNum(rows) ==
    IF NumericIds(rows) = {} THEN 1 ELSE (CHOOSE m \in NumericIds(rows) : \A x \in NumericIds(rows) : x <= m) + 1

\* csv.DictReader on one data row under the field names hdr: a later
\* duplicate name wins, a name past the end of the row reads None, values
\* past the end of the header are kept under the key None (rest)
DictRow(hdr, row) ==
    [f |-> [n \in Range(hdr) |->
              LET i == CHOOSE k \in 1..Len(hdr) :
                          hdr[k] = n /\ \A m \in 1..Len(hdr) : hdr[m] = n => m <= k
              IN  IF i <= Len(row) THEN row[i] ELSE NoneVal],
     rest |-> IF Len(hdr) < Len(row)
              THEN SubSeq(row, Len(hdr) + 1, Len(row)) ELSE <<>>]

\* get_all_todos: one dict per non-empty row after the first; [] when the
\* file does not exist
GetAll(f) ==
    IF ~f.exists \/ f.rows = <<>> THEN <<>>
    ELSE LET data == SelectSeq(Rest(f.rows), LAMBDA r : r # <<>>)
         IN  [i \in 1..Len(data) |-> DictRow(f.rows[1], data[i])]

\* todo.get(name): the field, None when the dict has no such key
Field(rec, name) ==
    IF name \in DOMAIN rec.f THEN rec.f[name] ELSE NoneVal

----------------------------------------------------------------------------
(* The inputs the model draws *)

\* (task, priority, notes, repeat, days) of add_todo
AddInputs ==
    { [task |-> "Fix bug", priority |-> "High", notes |-> "Blocking",
       repeat |-> "none", days |-> ""],
      [task |-> "Review", priority |-> "Low", notes |-> "",
       repeat |-> "specific_days", days |-> "0,4"] }

\* the inputs of the specification with the due-today query: also a daily
\* todo, and Days strings with a space and with a piece that is no number
DueInputs ==
    AddInputs \cup
    { [task |-> "Stand-up", priority |-> "Medium", notes |-> "",
       repeat |-> "daily", days |-> ""],
      [task |-> "Tidy up", priority |-> "Low", notes |-> "",
       repeat |-> "specific_days", days |-> "5, 6"],
      [task |-> "Report", priority |-> "Medium", notes |-> "",
       repeat |-> "specific_days", days |-> "2,x"] }

\* what a caller can also pass to add_todo, whose parameters are plain
\* strings: an empty task, and specific_days with no days
CallerInputs ==
    AddInputs \cup
    { [task |-> "", priority |-> "Medium", notes |-> "",
       repeat |-> "none", days |-> ""],
      [task |-> "Weekly review", priority |-> "Medium", notes |-> "",
       repeat |-> "specific_days", days |-> ""] }

NoInput ==
    [task |-> "", priority |-> "", notes |-> "", repeat |-> "", days |-> ""]

\* the ids the callers pass: the ids add_todo can have assigned, and one more
IdArgs ==
    {Str(n) : n \in 1..(MaxId + 1)}

Statuses ==
    {"Pending", "Done"}

\* a daily todo an earlier session added, completed and archived on day 0,
\* and completed again since
UsedRow ==
    <<"1", "Stand-up", "Medium", "Done", TimeStr(0), "", "daily", "", "", DateStr(0)>>

\* the files the repository can be constructed on: none, a zero-byte file,
\* a file initialize() created, a legacy six-column file, a file an earlier
\* session left
InitialFiles ==
    { [exists |-> FALSE, rows |-> <<>>],
      [exists |-> TRUE, rows |-> <<>>],
      [exists |-> TRUE, rows |-> <<HEADERS>>],
      [exists |-> TRUE, rows |-> <<HEADERS, UsedRow>>] }
    \cup { [exists |-> TRUE, rows |-> <<LegacyHeader,
                         <<"1", "Old task", "Medium", s, TimeStr(0), "">>>>] : s \in Statuses }

\* the record of a call: by is the thread that made it (0: the only one),
\* seen the rows it read when other calls could run before it wrote, raised
\* whether an exception left the method instead of a return value
OpRec(name, id, status, inp, ok, count, newid, fail) ==
    [name |-> name, id |-> id, status |-> status, inp |-> inp, ok |-> ok,
     count |-> count, newid |-> newid, fail |-> fail, by |-> 0, seen |-> <<>>,
     raised |-> FALSE]

\* the threads of the process that call the repository
Threads ==
    {1, 2}

\* a thread that is in no repository call; calls counts the calls it has made
IdleThread ==
    [pc |-> "idle", name |-> "none", id |-> "", status |-> "", inp |-> NoInput,
     rows |-> <<>>, todo_id |-> "", calls |-> 0]

\* no timer: the None of timer_id and hyper_focus_timer_id (Tk's ids are
\* written 1, 2, ... here)
NoTimer ==
    0

\* no time: the None of hyper_focus_end_time and next_checkin_time
NoTime ==
    0 - 1

\* no unfinished-session check yet: no rows given, None returned
NoScan ==
    [tasks |-> <<>>, result |-> NoTime]

\* WorkLoggerApp.__init__: not tracking, no timer, no hyper focus
NewApp ==
    [is_running |-> FALSE, timer_id |-> NoTimer, next_checkin_time |-> NoTime,
     hyper_focus_active |-> FALSE, hyper_focus_end_time |-> NoTime,
     hyper_focus_timer_id |-> NoTimer, now |-> 0, pending |-> {},
     stopping |-> 0, last |-> "none"]

\* no hourly summary row
NoSummary ==
    [start_time |-> NoTime, end_time |-> NoTime, duration |-> 0,
     ticket |-> <<>>, count |-> 0]

\* WorkLoggerApp.__init__: no hour begun, no task, no check-in
NewHour ==
    [hourly_tasks |-> <<>>, hour_start_time |-> NoTime, now |-> 0,
     dialog |-> FALSE, thread |-> [pc |-> "idle", end_time |-> NoTime, duration |-> 0,
                            ticket |-> <<>>], expected |-> NoSummary,
     written |-> NoSummary]

\* extract_due found no due date
Absent ==
    [kind |-> "absent", date |-> 0, hour |-> 0, minute |-> 0]

\* no extract_due call yet
NoExtract ==
    [text |-> <<>>, reference |-> 0, due |-> Absent, done |-> FALSE]

\* the state outside the todo repository while only the repository is used
ElsewhereInit ==
    /\ threads = [t \in Threads |-> IdleThread]
    /\ mutex = TRUE
    /\ worklog = <<>>
    /\ unfinished = NoScan
    /\ app = NewApp
    /\ extract = NoExtract
    /\ hourly = NewHour

\* a step of the todo repository's single caller: nothing else changes
Elsewhere ==
    UNCHANGED <<threads, mutex, worklog, unfinished, app, extract, hourly>>

\* the todo repository unused: no file, no call
StoreInit ==
    /\ file = [exists |-> FALSE, rows |-> <<>>]
    /\ archive = [exists |-> FALSE, lines |-> <<>>]
    /\ today = 0
    /\ pre = file
    /\ preArchive = archive
    /\ op = OpRec("none", "", "", NoInput, FALSE, 0, "", "none")
    /\ assigned = {}
    /\ addRun = <<>>
    /\ answer = <<>>
    /\ archivedOn = {}

\* a step elsewhere in the program: the todo repository is not touched
StoreUnchanged ==
    UNCHANGED <<file, archive, today, pre, preArchive, op, assigned, addRun,
                answer, archivedOn>>

Init ==
    /\ file \in InitialFiles
    /\ archive = [exists |-> FALSE, lines |-> <<>>]
    /\ today = 0
    /\ pre = file
    /\ preArchive = archive
    /\ op = OpRec("none", "", "", NoInput, FALSE, 0, "", "none")
    /\ assigned = {}
    /\ addRun = <<>>
    /\ answer = <<>>
    /\ archivedOn = {}
    /\ ElsewhereInit

----------------------------------------------------------------------------
(* File writes and their failures *)

\* the places where an operation's file I/O can raise
ReadFail == "read"
OpenFail == "open"
WriteFail == "write"

\* _write_rows, and what the file holds afterwards: all the rows; what it
\* held before when open(mode='w') raises; a prefix of the rows when the
\* write raises after open() truncated the file
WriteRows(f, rows, fail) ==
    CASE fail = "none"   -> {[exists |-> TRUE, rows |-> rows]}
      [] fail = OpenFail -> {f}
      [] OTHER           -> {[exists |-> TRUE, rows |-> SubSeq(rows, 1, k)] :
                                k \in 0..(Len(rows) - 1)}

\* the failures a read-modify-write operation can meet: reading needs an
\* existing file (os.path.exists), a write failure needs a write
RmwFails ==
    {"none", ReadFail, OpenFail, WriteFail}

----------------------------------------------------------------------------
(* Public API of TodoRepository *)

\* _migrate_if_needed without the loop that extends the rows
MigratedHeaderOnly(rows) ==
    LET header == rows[1]
        missing == SelectSeq(HEADERS, LAMBDA h : h \notin Range(header))
    IN  [i \in 1..Len(rows) |-> IF i = 1 THEN header \o missing ELSE rows[i]]

\* _migrate_if_needed without the "header.extend(missing)"
MigratedRowsOnly(rows) ==
    LET header == rows[1]
        missing == SelectSeq(HEADERS, LAMBDA h : h \notin Range(header))
    IN  [i \in 1..Len(rows) |->
            IF i = 1 THEN header ELSE rows[i] \o [k \in 1..Len(missing) |-> ""]]

\* _migrate_if_needed on a non-empty list of rows with missing columns
Migrated(rows) ==
    LET header == rows[1]
        missing == SelectSeq(HEADERS, LAMBDA h : h \notin Range(header))
    IN  [i \in 1..Len(rows) |->
            IF i = 1 THEN header \o missing
            ELSE rows[i] \o [k \in 1..Len(missing) |-> ""]]

\* initialize(): create the file with the header, or migrate it
\* (_migrate_if_needed: append the missing column names to the header and
\* as many empty values to every other row)
Initialize ==
    /\ file' = IF ~file.exists THEN [exists |-> TRUE, rows |-> <<HEADERS>>]
               ELSE IF file.rows = <<>> THEN file
               ELSE IF \A h \in Range(HEADERS) : h \in Range(file.rows[1]) THEN file
               ELSE [exists |-> TRUE, rows |-> Migrated(file.rows)]
    /\ pre' = file
    /\ preArchive' = archive
    /\ answer' = <<>>
    /\ archivedOn' = archivedOn
    /\ op' = OpRec("initialize", "", "", NoInput, TRUE, 0, "", "none")
    /\ assigned' = assigned
    /\ addRun' = <<>>
    /\ UNCHANGED <<archive, today>>

\* initialize() when its file I/O raises: the method has no try/except, so
\* the exception reaches the caller. On a missing file open(mode='w') or
\* the write of the header raises (the file is then created and empty); on
\* an existing file the read raises, or the write of the migrated rows
InitializeRaises(fail) ==
    LET rows == ReadRows(file)
        migrates == /\ file.exists /\ rows # <<>>
                    /\ \E h \in Range(HEADERS) : h \notin Range(rows[1])
    IN  /\ fail \in {ReadFail, OpenFail, WriteFail}
        /\ fail = ReadFail => file.exists
        /\ fail \in {OpenFail, WriteFail} => ~file.exists \/ migrates
        /\ file' \in IF fail = ReadFail THEN {file}
                     ELSE IF ~file.exists THEN WriteRows(file, <<HEADERS>>, fail)
                     ELSE WriteRows(file, Migrated(rows), fail)
        /\ pre' = file
        /\ preArchive' = archive
        /\ answer' = <<>>
        /\ archivedOn' = archivedOn
        /\ op' = [OpRec("initialize", "", "", NoInput, FALSE, 0, "", fail)
                      EXCEPT !.raised = TRUE]
        /\ assigned' = assigned
        /\ addRun' = <<>>
        /\ UNCHANGED <<archive, today>>

\* the row of add_todo with notes and priority in each other's column
NewRowSwapped(id, inp, now) ==
    <<id, inp.task, inp.notes, "Pending", TimeStr(now), inp.priority,
      inp.repeat, inp.days, "", "">>

\* the row add_todo appends
NewRow(id, inp, now) ==
    <<id, inp.task, inp.priority, "Pending", TimeStr(now), inp.notes,
      inp.repeat, inp.days, "", "">>

\* add_todo(task, priority, notes, repeat, days)
AddTodo(inp, fail) ==
    LET rows == ReadRows(file)
        todo_id == Str(NextIdNum(rows))
    IN  /\ fail \in {"none", ReadFail, OpenFail}
        /\ fail = ReadFail => file.exists
        /\ file' = IF fail = "none"
                   THEN [exists |-> TRUE,
                         rows |-> (IF file.exists THEN file.rows ELSE <<>>)
                                  \o <<NewRow(todo_id, inp, today)>>]
                   ELSE file
        /\ pre' = file
        /\ preArchive' = archive
        /\ answer' = <<>>
        /\ archivedOn' = archivedOn
        /\ op' = OpRec("add", "", "", inp, fail = "none", 0,
                       IF fail = "none" THEN todo_id ELSE "", fail)
        /\ assigned' = IF fail = "none" THEN assigned \cup {todo_id} ELSE assigned
        /\ addRun' = IF fail = "none" THEN Append(addRun, todo_id) ELSE addRun
        /\ UNCHANGED <<archive, today>>

\* the first data row whose id is todo_id (0 when none): the row the loops
\* of update_todo_status, set_committed and clear_committed stop at
FindRow(rows, todo_id) ==
    LET hits == {i \in 2..Len(rows) : rows[i] # <<>> /\ rows[i][1] = todo_id}
    IN  IF hits = {} THEN 0 ELSE CHOOSE i \in hits : \A j \in hits : i <= j

\* PatchRow writing one column too far to the left
PatchRowOffByOne(rows, todo_id, col, value) ==
    LET i == FindRow(rows, todo_id)
    IN  IF i = 0 THEN rows
        ELSE [rows EXCEPT ![i] = [PadRow(rows[i]) EXCEPT ![col - 1] = value]]

\* rows with column col of the first row with id todo_id padded and set
PatchRow(rows, todo_id, col, value) ==
    LET i == FindRow(rows, todo_id)
    IN  IF i = 0 THEN rows
        ELSE [rows EXCEPT ![i] = [PadRow(rows[i]) EXCEPT ![col] = value]]

\* the locate-and-patch body writing the table and returning True whether
\* or not a row was found
LocateAndPatchAlwaysTrue(name, todo_id, status, col, value, fail) ==
    LET rows == ReadRows(file)
    IN  /\ fail \in RmwFails
        /\ fail = ReadFail => file.exists
        /\ file' \in IF fail = ReadFail THEN {file}
                     ELSE WriteRows(file, PatchRow(rows, todo_id, col, value), fail)
        /\ pre' = file
        /\ preArchive' = archive
        /\ answer' = <<>>
        /\ archivedOn' = archivedOn
        /\ op' = OpRec(name, todo_id, status, NoInput, fail = "none", 0, "", fail)
        /\ assigned' = assigned
        /\ addRun' = <<>>
        /\ UNCHANGED <<archive, today>>

\* the locate-and-patch body shared by update_todo_status, set_committed
\* and clear_committed
LocateAndPatch(name, todo_id, status, col, value, fail) ==
    LET rows == ReadRows(file)
        updated == FindRow(rows, todo_id) # 0
    IN  /\ fail \in RmwFails
        /\ fail = ReadFail => file.exists
        /\ fail \in {OpenFail, WriteFail} => updated
        /\ file' \in IF fail = ReadFail \/ ~updated THEN {file}
                     ELSE WriteRows(file, PatchRow(rows, todo_id, col, value), fail)
        /\ pre' = file
        /\ preArchive' = archive
        /\ answer' = <<>>
        /\ archivedOn' = archivedOn
        /\ op' = OpRec(name, todo_id, status, NoInput, fail = "none" /\ updated,
                       0, "", fail)
        /\ assigned' = assigned
        /\ addRun' = <<>>
        /\ UNCHANGED <<archive, today>>

\* update_todo_status(todo_id, status)
UpdateTodoStatus(todo_id, status, fail) ==
    LocateAndPatch("update_status", todo_id, status, HeaderIndex("Status"), status, fail)

\* set_committed(todo_id) with the index of LastCompleted for CommittedAt's
SetCommittedWrongColumn(todo_id, fail) ==
    LocateAndPatch("set_committed", todo_id, "", HeaderIndex("LastCompleted"),
                   TimeStr(today), fail)

\* set_committed(todo_id)
SetCommitted(todo_id, fail) ==
    LocateAndPatch("set_committed", todo_id, "", HeaderIndex("CommittedAt"),
                   TimeStr(today), fail)

\* clear_committed(todo_id)
ClearCommitted(todo_id, fail) ==
    LocateAndPatch("clear_committed", todo_id, "", HeaderIndex("CommittedAt"), "", fail)

\* the rows of delete_todo without the "[rows[0]] +"
DeletedRowsNoHeader(rows, todo_id) ==
    SelectSeq(Rest(rows), LAMBDA r : r # <<>> /\ r[1] # todo_id)

\* the rows delete_todo writes: [rows[0]] + [r for r in rows[1:] if r and r[0] != todo_id]
DeletedRows(rows, todo_id) ==
    <<rows[1]>> \o SelectSeq(Rest(rows), LAMBDA r : r # <<>> /\ r[1] # todo_id)

\* delete_todo(todo_id); rows[0] raises IndexError on a file with no rows
DeleteTodo(todo_id, fail) ==
    LET rows == ReadRows(file)
        raised == fail = "none" /\ rows = <<>>
    IN  /\ fail \in RmwFails
        /\ fail = ReadFail => file.exists
        /\ fail \in {OpenFail, WriteFail} => rows # <<>>
        /\ file' \in IF fail = ReadFail \/ raised THEN {file}
                     ELSE WriteRows(file, DeletedRows(rows, todo_id), fail)
        /\ pre' = file
        /\ preArchive' = archive
        /\ answer' = <<>>
        /\ archivedOn' = archivedOn
        /\ op' = OpRec("delete", todo_id, "", NoInput, fail = "none" /\ ~raised,
                       0, "", fail)
        /\ assigned' = assigned
        /\ addRun' = <<>>
        /\ UNCHANGED <<archive, today>>

----------------------------------------------------------------------------
(* The day's work log and the unfinished-session check *)

\* Python's  marker in title  for the titles above
TitleContains(title, marker) ==
    title = marker

\* log_task: a row is appended to the day's log, stamped with the time of
\* the call (times do not go back)
LogTask(title, time) ==
    /\ Len(worklog) < MaxLogRows
    /\ Len(worklog) > 0 => time >= worklog[Len(worklog)].start_time_obj
    /\ worklog' = Append(worklog, [Title |-> title, start_time_obj |-> time])
    /\ UNCHANGED <<unfinished, threads, mutex, app, extract, hourly>>
    /\ StoreUnchanged

\* the loop body of the check with the end marker ignored
ScanStepIgnoresEnd(last_start_time, task) ==
    IF TitleContains(task.Title, "DAY STARTED")
    THEN task.start_time_obj
    ELSE last_start_time

\* the loop body of the unfinished-session check
ScanStep(last_start_time, task) ==
    IF TitleContains(task.Title, "DAY STARTED")
    THEN task.start_time_obj
    ELSE IF TitleContains(task.Title, "DAY ENDED") /\ last_start_time # NoTime
         THEN NoTime
         ELSE last_start_time

RECURSIVE ScanFrom(_, _, _)
\* the loop of the check from row i on
ScanFrom(tasks, i, last_start_time) ==
    IF i > Len(tasks)
    THEN last_start_time
    ELSE ScanFrom(tasks, i + 1, ScanStep(last_start_time, tasks[i]))

\* find_unfinished_session(tasks) on the rows of the day
FindUnfinishedSession ==
    /\ unfinished' = [tasks |-> worklog, result |-> ScanFrom(worklog, 1, NoTime)]
    /\ UNCHANGED <<worklog, threads, mutex, app, extract, hourly>>
    /\ StoreUnchanged

----------------------------------------------------------------------------
(* The tracker's timers and hyper focus *)

\* settings_manager.get("checkin_interval_minutes"), in ticks of the clock
CheckinInterval == 2

\* the callbacks waiting in Tk's timer queue for the named method
PendingFor(a, callback) ==
    {t \in a.pending : t.callback = callback}

\* the id root.after returns: one never handed out to a timer still known
NewTimerId(a) ==
    LET known == {t.id : t \in a.pending} \cup {a.timer_id, a.hyper_focus_timer_id}
    IN  CHOOSE n \in 1..(Cardinality(known) + 1) :
            /\ n \notin known
            /\ \A k \in 1..(n - 1) : k \in known

\* root.after(delay, callback): the timer queue afterwards
After(a, delay, callback) ==
    a.pending \cup {[id |-> NewTimerId(a), callback |-> callback,
                     due |-> a.now + delay]}

\* a step of the tracker: the todo repository and the rest are not touched
AppFrame ==
    /\ UNCHANGED <<unfinished, threads, mutex, extract, hourly>>
    /\ StoreUnchanged

\* time passes
TickClock ==
    /\ app.now < MaxNow
    /\ app' = [app EXCEPT !.now = app.now + 1, !.last = "tick"]
    /\ UNCHANGED worklog
    /\ AppFrame

\* Start Day (the button is enabled while not tracking): the DAY STARTED
\* marker is logged and the check-in timer is scheduled
StartTracking ==
    /\ ~app.is_running
    /\ Cardinality({i \in 1..Len(worklog) : worklog[i].Title = "DAY STARTED"})
          < MaxSessions
    /\ worklog' = Append(worklog, [Title |-> "DAY STARTED",
                                   start_time_obj |-> app.now])
    /\ app' = [app EXCEPT !.is_running = TRUE,
                          !.next_checkin_time = app.now + CheckinInterval,
                          !.timer_id = NewTimerId(app),
                          !.pending = After(app, CheckinInterval, "hourly_checkin"),
                          !.last = "start_tracking"]
    /\ AppFrame

\* a check-in timer fires: hourly_checkin returns when not tracking and
\* schedules the next check-in otherwise
HourlyCheckin(timer) ==
    /\ timer \in PendingFor(app, "hourly_checkin")
    /\ timer.due <= app.now
    /\ LET fired == [app EXCEPT !.pending = app.pending \ {timer},
                                !.last = "hourly_checkin"]
       IN  app' = IF ~app.is_running
                  THEN fired
                  ELSE [fired EXCEPT
                            !.next_checkin_time = app.now + CheckinInterval,
                            !.timer_id = NewTimerId(fired),
                            !.pending = After(fired, CheckinInterval,
                                              "hourly_checkin")]
    /\ UNCHANGED worklog
    /\ AppFrame

\* Stop / End Day: while tracking, a background thread is started
StopTracking ==
    /\ app.is_running
    /\ app.stopping < MaxSessions
    /\ app' = [app EXCEPT !.stopping = app.stopping + 1, !.last = "stop_tracking"]
    /\ UNCHANGED worklog
    /\ AppFrame

\* the stop thread's callback on the main thread: the DAY ENDED marker is
\* logged and finalize_stop_ui clears is_running (the check-in timer is left)
FinalizeStopUi ==
    /\ app.stopping > 0
    /\ worklog' = Append(worklog, [Title |-> "DAY ENDED",
                                   start_time_obj |-> app.now])
    /\ app' = [app EXCEPT !.is_running = FALSE,
                          !.stopping = app.stopping - 1,
                          !.last = "finalize_stop_ui"]
    /\ AppFrame

\* _start_hyper_focus(end_time), from the Hyper Focus button while
\* tracking: check-ins are suspended, and resumed by a timer at end_time
StartHyperFocus(end_time) ==
    /\ app.is_running
    /\ ~app.hyper_focus_active
    /\ end_time # NoTime => end_time > app.now
    /\ LET cancelled ==
               [app EXCEPT !.hyper_focus_active = TRUE,
                           !.hyper_focus_end_time = end_time,
                           !.pending = IF app.timer_id # NoTimer
                                       THEN {t \in app.pending : t.id # app.timer_id}
                                       ELSE app.pending,
                           !.timer_id = NoTimer,
                           !.last = "_start_hyper_focus"]
       IN  app' = IF end_time = NoTime
                  THEN cancelled
                  ELSE [cancelled EXCEPT
                            !.hyper_focus_timer_id = NewTimerId(cancelled),
                            !.pending = After(cancelled, end_time - app.now,
                                              "_end_hyper_focus")]
    /\ UNCHANGED worklog
    /\ AppFrame

\* _end_hyper_focus(): the state it leaves
EndedHyperFocus(a) ==
    LET cleared ==
            [a EXCEPT !.hyper_focus_active = FALSE,
                      !.hyper_focus_end_time = NoTime,
                      !.pending = IF a.hyper_focus_timer_id # NoTimer
                                  THEN {t \in a.pending : t.id # a.hyper_focus_timer_id}
                                  ELSE a.pending,
                      !.hyper_focus_timer_id = NoTimer,
                      !.last = "_end_hyper_focus"]
    IN  [cleared EXCEPT !.next_checkin_time = a.now + CheckinInterval,
                        !.timer_id = NewTimerId(cleared),
                        !.pending = After(cleared, CheckinInterval,
                                          "hourly_checkin")]

\* _end_hyper_focus() from the End Hyper Focus button
EndHyperFocus ==
    /\ app.hyper_focus_active
    /\ app' = EndedHyperFocus(app)
    /\ UNCHANGED worklog
    /\ AppFrame

\* the auto-resume timer fires and calls _end_hyper_focus()
ResumeTimerFires(timer) ==
    /\ timer \in PendingFor(app, "_end_hyper_focus")
    /\ timer.due <= app.now
    /\ app' = EndedHyperFocus(app)
    /\ UNCHANGED worklog
    /\ AppFrame

----------------------------------------------------------------------------
(* The tasks of the hour and the hourly summary thread *)

\* the ticket fields the user types for a task
Tickets ==
    {"AB-1", "CD-2"}

\* a step of the hourly bookkeeping: nothing else changes
HourFrame ==
    /\ UNCHANGED <<worklog, unfinished, app, threads, mutex, extract>>
    /\ StoreUnchanged

\* add_task() with what the user enters: nothing when the dialog is
\* cancelled (or the list is at its bound); else the task is appended with
\* the minutes since the last task, or since the hour began
WithTask(h, details) ==
    IF details = "cancelled" \/ Len(h.hourly_tasks) >= MaxHourTasks
    THEN h
    ELSE LET since == IF h.hourly_tasks # <<>>
                      THEN h.hourly_tasks[Len(h.hourly_tasks)].timestamp
                      ELSE IF h.hour_start_time # NoTime THEN h.hour_start_time
                      ELSE h.now
         IN  [h EXCEPT !.hourly_tasks =
                  Append(h.hourly_tasks, [ticket |-> details, timestamp |-> h.now,
                                          duration |-> h.now - since])]

RECURSIVE SumDuration(_)
\* sum(task.get('duration', 0) for task in tasks)
SumDuration(tasks) ==
    IF tasks = <<>> THEN 0 ELSE Head(tasks).duration + SumDuration(Tail(tasks))

\* time passes
TickHour ==
    /\ hourly.now < MaxHourNow
    /\ hourly' = [hourly EXCEPT !.now = hourly.now + 1]
    /\ HourFrame

\* start_tracking, the hourly bookkeeping: the hour begins, the task list
\* is emptied and the first task is asked for
StartHour(details) ==
    /\ hourly.hour_start_time = NoTime
    /\ hourly' = WithTask([hourly EXCEPT !.hour_start_time = hourly.now,
                                     !.hourly_tasks = <<>>], details)
    /\ HourFrame

\* the Add Task button
AddTask(details) ==
    /\ hourly.hour_start_time # NoTime
    /\ ~hourly.dialog
    /\ Len(hourly.hourly_tasks) < MaxHourTasks
    /\ details # "cancelled"
    /\ hourly' = WithTask(hourly, details)
    /\ HourFrame

\* hourly_checkin up to the message box: end_time is taken and the thread
\* running save_hourly_summary(end_time) is started (one such thread at a
\* time here); expected is the hour that ended, as the main thread sees it
CheckinStartsSummary ==
    /\ hourly.hour_start_time # NoTime
    /\ ~hourly.dialog
    /\ hourly.thread.pc \in {"idle", "done"}
    /\ hourly' = [hourly EXCEPT
                    !.dialog = TRUE,
                    !.thread = [NewHour.thread EXCEPT !.pc = "check",
                                                      !.end_time = hourly.now],
                    !.expected = IF hourly.hourly_tasks = <<>>
                                 THEN NoSummary
                                 ELSE [start_time |-> hourly.hour_start_time,
                                       end_time |-> hourly.now,
                                       duration |-> SumDuration(hourly.hourly_tasks),
                                       ticket |-> [i \in 1..Len(hourly.hourly_tasks) |->
                                                  hourly.hourly_tasks[i].ticket],
                                       count |-> Len(hourly.hourly_tasks)],
                    !.written = NoSummary]
    /\ HourFrame

\* hourly_checkin after the message box is dismissed: the hour is reset
\* (hour_start_time = end_time, hourly_tasks = []) and the first task of
\* the new hour is asked for
CheckinResetsHour(details) ==
    /\ hourly.dialog
    /\ hourly' = WithTask([hourly EXCEPT !.dialog = FALSE,
                                     !.hour_start_time = hourly.thread.end_time,
                                     !.hourly_tasks = <<>>], details)
    /\ HourFrame

\* save_hourly_summary: the test of self.hourly_tasks and
\* self.hour_start_time; the thread returns when there is no task
SummaryCheck ==
    /\ hourly.thread.pc = "check"
    /\ hourly' = [hourly EXCEPT !.thread.pc =
                    IF hourly.hourly_tasks = <<>> \/ hourly.hour_start_time = NoTime
                    THEN "done" ELSE "duration"]
    /\ HourFrame

\* save_hourly_summary: total_duration over self.hourly_tasks, read after
\* generate_hourly_summary returned
SummaryDuration ==
    /\ hourly.thread.pc = "duration"
    /\ hourly' = [hourly EXCEPT !.thread.pc = "tickets",
                            !.thread.duration = SumDuration(hourly.hourly_tasks)]
    /\ HourFrame

\* save_hourly_summary: all_tickets over self.hourly_tasks
SummaryTickets ==
    /\ hourly.thread.pc = "tickets"
    /\ hourly' = [hourly EXCEPT !.thread.pc = "row",
                            !.thread.ticket = [i \in 1..Len(hourly.hourly_tasks) |->
                                                  hourly.hourly_tasks[i].ticket]]
    /\ HourFrame

\* save_hourly_summary: the row is built from self.hour_start_time and
\* len(self.hourly_tasks) as they are now, and logged
SummaryRow ==
    /\ hourly.thread.pc = "row"
    /\ hourly' = [hourly EXCEPT
                    !.thread.pc = "done",
                    !.written = [start_time |-> hourly.hour_start_time,
                                 end_time |-> hourly.thread.end_time,
                                 duration |-> hourly.thread.duration,
                                 ticket |-> hourly.thread.ticket,
                                 count |-> Len(hourly.hourly_tasks)]]
    /\ HourFrame

----------------------------------------------------------------------------
(* The due-date extractor *)

\* a plain word or named phrase of a text
Word(w) ==
    [text |-> w, form |-> "word", hour |-> 0, minute |-> 0, pm |-> FALSE]

\* a clock time written in a text, in one of the three forms
Clock(w, form, hour, minute, pm) ==
    [text |-> w, form |-> form, hour |-> hour, minute |-> minute, pm |-> pm]

\* the words texts are made of
DueWords ==
    {Word("fix"), Word("today"), Word("tomorrow"), Word("end of day"),
     Word("eod"), Word("noon"), Word("midnight"), Word("morning"),
     Word("afternoon"), Word("evening"),
     Clock("10:30 AM", "12m", 10, 30, FALSE), Clock("12:15am", "12m", 12, 15, FALSE),
     Clock("3:30pm", "12m", 3, 30, TRUE), Clock("3:75pm", "12m", 3, 75, TRUE),
     Clock("9am", "12", 9, 0, FALSE), Clock("12pm", "12", 12, 0, TRUE),
     Clock("13pm", "12", 13, 0, TRUE),
     Clock("15:45", "24", 15, 45, FALSE), Clock("25:00", "24", 25, 0, FALSE)}

\* phrase is a substring of the text
ContainsPhrase(text, phrase) ==
    \E i \in 1..Len(text) :
        phrase \in (IF text[i].text = "afternoon" THEN {"afternoon", "noon"}
                    ELSE {text[i].text})

\* a rule's outcome: a time of day, or no match
Match(hour, minute) ==
    [matched |-> TRUE, hour |-> hour, minute |-> minute]

NoMatch ==
    [matched |-> FALSE, hour |-> 0, minute |-> 0]

\* the named phrases with noon checked before the phrases that contain it
PhraseOrderNoonFirst ==
    <<"noon", "end of day", "afternoon", "midnight", "morning", "evening", "eod">>

\* rule 2: the named phrases in the order they are checked, longest first
PhraseOrder ==
    <<"end of day", "afternoon", "midnight", "morning", "evening", "noon", "eod">>

\* rule 2: the time of day a named phrase stands for
PhraseTime(phrase) ==
    CASE phrase \in {"end of day", "eod"} -> Match(17, 0)
      [] phrase = "noon" -> Match(12, 0)
      [] phrase = "midnight" -> Match(0, 0)
      [] phrase = "morning" -> Match(9, 0)
      [] phrase = "afternoon" -> Match(14, 0)
      [] phrase = "evening" -> Match(18, 0)

\* rule 2: the first phrase of the order that the text contains
NamedPhrase(text) ==
    LET found == {i \in 1..Len(PhraseOrder) : ContainsPhrase(text, PhraseOrder[i])}
    IN  IF found = {}
        THEN NoMatch
        ELSE PhraseTime(PhraseOrder[CHOOSE i \in found : \A j \in found : i <= j])

\* rules 3 and 4: hour, minute and meridiem to the 24-hour clock; a parse
\* that is no time of day matches nothing
TwelveHour(clock) ==
    IF clock.hour >= 1 /\ clock.hour <= 12 /\ clock.minute >= 0 /\ clock.minute <= 59
    THEN Match((clock.hour % 12) + (IF clock.pm THEN 12 ELSE 0), clock.minute)
    ELSE NoMatch

\* rule 5: HH:MM with hour 00-23 and minute 00-59; any other matches nothing
TwentyFourHour(clock) ==
    IF clock.hour >= 0 /\ clock.hour <= 23 /\ clock.minute >= 0 /\ clock.minute <= 59
    THEN Match(clock.hour, clock.minute)
    ELSE NoMatch

\* rules 3, 4 and 5 on the text
ClockRule(text, form) ==
    LET at == {k \in 1..Len(text) : text[k].form = form}
        i == IF at = {} THEN 0 ELSE CHOOSE k \in at : \A j \in at : k <= j
    IN  IF i = 0
        THEN NoMatch
        ELSE IF form = "24" THEN TwentyFourHour(text[i]) ELSE TwelveHour(text[i])

\* extract_due(text, reference_date): the first rule that matches decides
ExtractDueOf(text, reference_date) ==
    LET target_date == IF ContainsPhrase(text, "tomorrow")
                       THEN reference_date + 1 ELSE reference_date
        rules == <<NamedPhrase(text), ClockRule(text, "12m"), ClockRule(text, "12"),
                   ClockRule(text, "24")>>
        hits == {i \in 1..Len(rules) : rules[i].matched}
    IN  IF hits # {}
        THEN LET first == CHOOSE i \in hits : \A j \in hits : i <= j
             IN  [kind |-> "datetime", date |-> target_date,
                  hour |-> rules[first].hour, minute |-> rules[first].minute]
        ELSE IF ContainsPhrase(text, "today") \/ ContainsPhrase(text, "tomorrow")
             THEN [kind |-> "date", date |-> target_date, hour |-> 0, minute |-> 0]
             ELSE Absent

\* a call of extract_due on the text and the reference date
ExtractDue ==
    /\ ~extract.done
    /\ extract' = [extract EXCEPT !.due = ExtractDueOf(extract.text, extract.reference),
                                  !.done = TRUE]
    /\ UNCHANGED <<worklog, unfinished, app, threads, mutex, hourly>>
    /\ StoreUnchanged

----------------------------------------------------------------------------
(* The process dying inside a call *)

\* what _write_rows(rows) leaves when the process dies inside it: the file
\* as it was (before open), the rows written so far after open(mode='w')
\* truncated the file, or all the rows (before the method returns)
WriteRowsKilled(f, rows) ==
    {f} \cup WriteRows(f, rows, WriteFail) \cup WriteRows(f, rows, "none")

\* the process dies inside the _write_rows call of update_todo_status
UpdateTodoStatusKilled(todo_id, status) ==
    LET rows == ReadRows(file)
    IN  /\ FindRow(rows, todo_id) # 0
        /\ file' \in WriteRowsKilled(file, PatchRow(rows, todo_id,
                                                    HeaderIndex("Status"), status))
        /\ pre' = file
        /\ preArchive' = archive
        /\ answer' = <<>>
        /\ archivedOn' = archivedOn
        /\ op' = OpRec("update_status", todo_id, status, NoInput, FALSE, 0, "",
                       "killed")
        /\ assigned' = assigned
        /\ addRun' = <<>>
        /\ UNCHANGED <<archive, today>>

\* the process dies inside the _write_rows call of delete_todo
DeleteTodoKilled(todo_id) ==
    LET rows == ReadRows(file)
    IN  /\ rows # <<>>
        /\ file' \in WriteRowsKilled(file, DeletedRows(rows, todo_id))
        /\ pre' = file
        /\ preArchive' = archive
        /\ answer' = <<>>
        /\ archivedOn' = archivedOn
        /\ op' = OpRec("delete", todo_id, "", NoInput, FALSE, 0, "", "killed")
        /\ assigned' = assigned
        /\ addRun' = <<>>
        /\ UNCHANGED <<archive, today>>

----------------------------------------------------------------------------
(* Calls from several threads *)

\* the calls a thread makes: (name, id, status, inp)
Call(name, id, status, inp) ==
    [name |-> name, id |-> id, status |-> status, inp |-> inp]

\* the ids the threads pass
ThreadIdArgs ==
    {Str(n) : n \in 1..MaxThreadId}

ThreadCalls ==
    {Call("add", "", "", inp) : inp \in AddInputs}
    \cup {Call("update_status", id, "Done", NoInput) : id \in ThreadIdArgs}
    \cup {Call("delete", id, "", NoInput) : id \in ThreadIdArgs}
    \cup {Call("set_committed", id, "", NoInput) : id \in ThreadIdArgs}
    \cup {Call("clear_committed", id, "", NoInput) : id \in ThreadIdArgs}

\* the first half of a call by thread t: rows = self._read_rows(), and for
\* add_todo todo_id = self._next_id(rows). With the callers' lock a call
\* starts only when no other call is in progress
ThreadRead(t, call) ==
    /\ threads[t].pc = "idle"
    /\ mutex => \A u \in Threads : threads[u].pc = "idle"
    /\ threads' = [threads EXCEPT ![t] =
                      [pc |-> "read", name |-> call.name, id |-> call.id,
                       status |-> call.status, inp |-> call.inp,
                       rows |-> ReadRows(file),
                       todo_id |-> IF call.name = "add"
                                   THEN Str(NextIdNum(ReadRows(file))) ELSE "",
                       calls |-> threads[t].calls + 1]]
    /\ UNCHANGED <<file, archive, today, pre, preArchive, op, assigned, addRun,
                   answer, archivedOn, mutex, worklog, unfinished, app, extract,
                   hourly>>

\* the second half of a call by thread t: add_todo appends its row to the
\* file as it is now (mode='a'); the others patch or filter the rows they
\* read and write the whole table (_write_rows), or write nothing when the
\* id was not among the rows read; the call returns
ThreadWrite(t) ==
    LET me == threads[t]
        rows == me.rows
        col == IF me.name = "update_status" THEN HeaderIndex("Status")
               ELSE HeaderIndex("CommittedAt")
        value == CASE me.name = "update_status" -> me.status
                   [] me.name = "set_committed" -> TimeStr(today)
                   [] OTHER -> ""
        ok == CASE me.name = "add" -> TRUE
                [] me.name = "delete" -> rows # <<>>
                [] OTHER -> FindRow(rows, me.id) # 0
    IN  /\ me.pc = "read"
        /\ file' \in
              CASE me.name = "add" ->
                     {[exists |-> TRUE,
                       rows |-> (IF file.exists THEN file.rows ELSE <<>>)
                                \o <<NewRow(me.todo_id, me.inp, today)>>]}
                [] me.name = "delete" /\ ok ->
                     WriteRows(file, DeletedRows(rows, me.id), "none")
                [] me.name # "delete" /\ ok ->
                     WriteRows(file, PatchRow(rows, me.id, col, value), "none")
                [] OTHER -> {file}
        /\ threads' = [threads EXCEPT ![t] = [IdleThread EXCEPT !.calls = me.calls]]
        /\ pre' = file
        /\ preArchive' = archive
        /\ answer' = <<>>
        /\ op' = [OpRec(me.name, me.id, me.status, me.inp, ok, 0,
                        IF me.name = "add" THEN me.todo_id ELSE "", "none")
                      EXCEPT !.by = t, !.seen = rows]
        /\ assigned' = IF me.name = "add" THEN assigned \cup {me.todo_id} ELSE assigned
        /\ addRun' = IF me.name = "add" THEN Append(addRun, me.todo_id) ELSE <<>>
        /\ UNCHANGED <<archive, today, archivedOn, mutex, worklog, unfinished,
                       app, extract, hourly>>

----------------------------------------------------------------------------
(* archive_done_todos *)

\* a failure of makedirs/open on the archive path, and of a write to it
ArchiveOpenFail == "archive_open"
ArchiveWriteFail == "archive_write"

\* the line written for one done row, as the pieces the f-string joins; a
\* field the row is too short for reads ""; the separator before the notes
\* is a dash (U+2014) in the source and is written " - " here
ArchiveLine(r) ==
    LET task == IF Len(r) > 1 THEN r[2] ELSE ""
        priority == IF Len(r) > 2 THEN r[3] ELSE ""
        created == IF Len(r) > 4 THEN r[5] ELSE ""
        notes == IF Len(r) > 5 THEN r[6] ELSE ""
    IN  <<"- [x] **", task, "** (Priority: ", priority, ", Created: ", created, ")">>
        \o (IF notes # "" THEN <<" - ", notes>> ELSE <<>>)

\* r[3] raises IndexError on a non-empty data row of fewer than four fields
ShortRow(rows) ==
    \E i \in 2..Len(rows) : rows[i] # <<>> /\ Len(rows[i]) < 4

\* done_rows without the test of the status
DoneRowsAnyStatus(rows) ==
    SelectSeq(Rest(rows), LAMBDA r : r # <<>>)

\* done_rows = [r for r in rows[1:] if r and r[3] == "Done"]
DoneRows(rows) ==
    SelectSeq(Rest(rows), LAMBDA r : r # <<>> /\ r[HeaderIndex("Status")] = "Done")

\* what the append to the archive writes: the heading, then a line per done row
ArchiveBlock(rows, d) ==
    <<<<"## ", DateStr(d)>>>> \o [i \in 1..Len(DoneRows(rows)) |-> ArchiveLine(DoneRows(rows)[i])]

\* ResetOrDrop with the non-repeating rows reset and kept as well
ResetOrDropKeepsAll(r, d) ==
    <<[PadRow(r) EXCEPT ![HeaderIndex("Status")] = "Pending",
                        ![HeaderIndex("LastCompleted")] = DateStr(d)]>>

\* ResetOrDrop recording the completion date of a repeating row without
\* setting its status back to Pending
ResetOrDropLeavesDone(r, d) ==
    IF PadRow(r)[HeaderIndex("Repeat")] \in {"daily", "specific_days"}
    THEN <<[PadRow(r) EXCEPT ![HeaderIndex("LastCompleted")] = DateStr(d)]>>
    ELSE <<>>

\* ResetOrDrop with the days of a repeating row cleared on the reset
ResetOrDropClearsDays(r, d) ==
    IF PadRow(r)[HeaderIndex("Repeat")] \in {"daily", "specific_days"}
    THEN <<[PadRow(r) EXCEPT ![HeaderIndex("Status")] = "Pending",
                             ![HeaderIndex("Days")] = "",
                             ![HeaderIndex("LastCompleted")] = DateStr(d)]>>
    ELSE <<>>

\* ResetOrDrop with every done row removed, the repeating ones included
ResetOrDropDropsAll(r, d) ==
    <<>>

\* what archive_done_todos does to one row whose id is among the done ids:
\* a repeating row is reset, any other row is dropped (the empty list)
ResetOrDrop(r, d) ==
    IF PadRow(r)[HeaderIndex("Repeat")] \in {"daily", "specific_days"}
    THEN <<[PadRow(r) EXCEPT ![HeaderIndex("Status")] = "Pending",
                             ![HeaderIndex("LastCompleted")] = DateStr(d)]>>
    ELSE <<>>

RECURSIVE ArchiveRows(_, _, _)
\* the loop over rows[1:] that builds new_rows
ArchiveRows(rs, done_ids, d) ==
    IF rs = <<>> THEN <<>>
    ELSE (IF Head(rs) = <<>> \/ Head(rs)[1] \notin done_ids
          THEN <<Head(rs)>> ELSE ResetOrDrop(Head(rs), d))
         \o ArchiveRows(Tail(rs), done_ids, d)

\* the ids of the rows new_rows keeps with status Pending and today's date:
\* the repeating rows whose id is among the done ids
ResetIds(rows) ==
    {r[1] : r \in {x \in Range(Rest(rows)) :
                     /\ x # <<>>
                     /\ x[1] \in {y[1] : y \in Range(DoneRows(rows))}
                     /\ ResetOrDrop(x, 0) # <<>>}}

\* the dated sections of the archive document
Sections(a) ==
    Cardinality({i \in 1..Len(a.lines) : a.lines[i][1] = "## "})

\* archive_done_todos(archive_file_path)
ArchiveDoneTodos(fail) ==
    LET rows == ReadRows(file)
        raised == fail = "none" /\ ShortRow(rows)
        nothing == fail = ReadFail \/ raised \/ ShortRow(rows) \/ DoneRows(rows) = <<>>
        block == ArchiveBlock(rows, today)
        appended == [exists |-> TRUE, lines |-> archive.lines \o block]
    IN  /\ fail \in RmwFails \cup {ArchiveOpenFail, ArchiveWriteFail}
        /\ fail = ReadFail => file.exists
        /\ fail \notin {"none", ReadFail} => ~nothing
        /\ archive' \in
              IF nothing \/ fail = ArchiveOpenFail THEN {archive}
              ELSE IF fail = ArchiveWriteFail
              THEN {[exists |-> TRUE, lines |-> archive.lines \o SubSeq(block, 1, k)] :
                        k \in 0..(Len(block) - 1)}
              ELSE {appended}
        /\ file' \in
              IF nothing \/ fail \in {ArchiveOpenFail, ArchiveWriteFail} THEN {file}
              ELSE WriteRows(file,
                             <<rows[1]>> \o ArchiveRows(Rest(rows),
                                              {r[1] : r \in Range(DoneRows(rows))},
                                              today),
                             fail)
        /\ pre' = file
        /\ preArchive' = archive
        /\ answer' = <<>>
        /\ archivedOn' =
              IF fail = "none" /\ ~nothing
              THEN {p \in archivedOn : p[1] \notin ResetIds(rows)}
                   \cup {<<id, today>> : id \in ResetIds(rows)}
              ELSE archivedOn
        /\ op' = OpRec("archive_done", "", "", NoInput, fail = "none" /\ ~raised,
                       IF fail = "none" /\ ~nothing THEN Len(DoneRows(rows)) ELSE 0,
                       "", fail)
        /\ assigned' = assigned
        /\ addRun' = <<>>
        /\ UNCHANGED today

----------------------------------------------------------------------------
(* The queries *)

\* [int(d.strip()) for d in days_str.split(',') if d.strip().isdigit()] for
\* the Days strings of the model: pieces are stripped, a piece that is not
\* all digits is skipped
ParseDays(days_str) ==
    (CHOOSE p \in { <<"", <<>>>>, <<"0,4", <<0, 4>>>>, <<"5, 6", <<5, 6>>>>,
                    <<"2,x", <<2>>>> } : p[1] = days_str)[2]

\* todo.get(name, default) or default: the default for a missing key, for
\* None and for ""
GetOr(todo, name, default) ==
    IF Field(todo, name) \in {NoneVal, ""} THEN default ELSE Field(todo, name)

\* the test get_todos_due_today applies to one todo; d % 7 is
\* datetime.date.today().weekday(): day 0 is 2024-01-01, a Monday (0)
IsDueToday(todo, d) ==
    LET repeat == GetOr(todo, "Repeat", "none")
    IN  \/ repeat = "daily"
        \/ /\ repeat = "specific_days"
           /\ (d % 7) \in Range(ParseDays(GetOr(todo, "Days", "")))

\* the test get_active_todos applies to one todo
IsActiveToday(todo, d) ==
    ~ /\ GetOr(todo, "Repeat", "none") \in {"daily", "specific_days"}
      /\ GetOr(todo, "LastCompleted", "") = DateStr(d)

\* the test get_committed_todos applies: t.get('CommittedAt', '') is truthy
IsCommitted(todo) ==
    GetOr(todo, "CommittedAt", "") # ""

\* a query: the file is read, nothing is written
Query(name, result) ==
    /\ answer' = result
    /\ pre' = file
    /\ preArchive' = archive
    /\ op' = OpRec(name, "", "", NoInput, TRUE, 0, "", "none")
    /\ addRun' = <<>>
    /\ UNCHANGED <<file, archive, today, assigned, archivedOn>>

\* get_todos_due_today()
GetTodosDueToday ==
    Query("get_due_today", SelectSeq(GetAll(file), LAMBDA t : IsDueToday(t, today)))

\* get_active_todos()
GetActiveTodos ==
    Query("get_active", SelectSeq(GetAll(file), LAMBDA t : IsActiveToday(t, today)))

\* get_committed_todos()
GetCommittedTodos ==
    Query("get_committed", SelectSeq(GetAll(file), LAMBDA t : IsCommitted(t)))

\* get_all_todos(): FileNotFoundError and every other exception are caught
\* and the list built so far is returned, which is empty when open() raises
\* and holds the records read before the failure when a read raises
GetAllTodos(fail) ==
    LET all == GetAll(file)
    IN  /\ fail \in {"none", ReadFail}
        /\ fail = ReadFail => file.exists
        /\ answer' \in IF fail = "none" THEN {all}
                       ELSE {SubSeq(all, 1, k) : k \in 0..(Len(all) - 1)} \cup {<<>>}
        /\ pre' = file
        /\ preArchive' = archive
        /\ op' = OpRec("get_all", "", "", NoInput, fail = "none", 0, "", fail)
        /\ addRun' = <<>>
        /\ UNCHANGED <<file, archive, today, assigned, archivedOn>>

\* the system clock passes midnight: no call is in progress, what the last
\* call returned belongs to the day before
Tick ==
    /\ today' = today + 1
    /\ pre' = file
    /\ preArchive' = archive
    /\ answer' = <<>>
    /\ op' = OpRec("tick", "", "", NoInput, TRUE, 0, "", "none")
    /\ UNCHANGED <<file, archive, assigned, addRun, archivedOn>>

----------------------------------------------------------------------------
(* Specifications *)

\* the bound on add_todo: fewer than n data rows, and an id within MaxId
CanAdd(n) ==
    /\ Len(ReadRows(file)) - 1 < n
    /\ NextIdNum(ReadRows(file)) <= MaxId

\* a client that initializes, adds, changes statuses and deletes
Next ==
    \/ Initialize /\ Elsewhere
    \/ \E inp \in AddInputs : CanAdd(MaxRows) /\ AddTodo(inp, "none") /\ Elsewhere
    \/ \E id \in IdArgs, s \in Statuses : UpdateTodoStatus(id, s, "none") /\ Elsewhere
    \/ \E id \in IdArgs : DeleteTodo(id, "none") /\ Elsewhere

Spec ==
    Init /\ [][Next]_vars

\* a client that also commits to todos and withdraws the commitment
NextCommit ==
    \/ Initialize /\ Elsewhere
    \/ \E inp \in AddInputs : CanAdd(MaxCommitRows) /\ AddTodo(inp, "none") /\ Elsewhere
    \/ \E id \in IdArgs, s \in Statuses : UpdateTodoStatus(id, s, "none") /\ Elsewhere
    \/ \E id \in IdArgs : SetCommitted(id, "none") /\ Elsewhere
    \/ \E id \in IdArgs : ClearCommitted(id, "none") /\ Elsewhere
    \/ GetCommittedTodos /\ Elsewhere

SpecCommit ==
    Init /\ [][NextCommit]_vars

\* the archiving client starts on any day: the legacy rows are of day 0
InitArchive ==
    /\ file \in InitialFiles
    /\ archive = [exists |-> FALSE, lines |-> <<>>]
    /\ today \in 0..MaxDay
    /\ pre = file
    /\ preArchive = archive
    /\ op = OpRec("none", "", "", NoInput, FALSE, 0, "", "none")
    /\ assigned = {}
    /\ addRun = <<>>
    /\ answer = <<>>
    /\ archivedOn = {}
    /\ ElsewhereInit

\* a client that adds, completes and archives, with the I/O failures
\* archive_done_todos can meet, up to the MaxArchive-th dated section
NextArchive ==
    /\ Sections(archive) < MaxArchive
    /\ \/ \E inp \in AddInputs : CanAdd(MaxArchiveRows) /\ AddTodo(inp, "none") /\ Elsewhere
       \/ \E id \in IdArgs, s \in Statuses : UpdateTodoStatus(id, s, "none") /\ Elsewhere
       \/ \E fail \in RmwFails \cup {ArchiveOpenFail, ArchiveWriteFail} :
             ArchiveDoneTodos(fail) /\ Elsewhere

SpecArchive ==
    InitArchive /\ [][NextArchive]_vars

\* a client that adds recurring todos, completes them and asks what is due,
\* on any one day of a week
InitDue ==
    /\ file \in InitialFiles
    /\ archive = [exists |-> FALSE, lines |-> <<>>]
    /\ today \in 0..MaxWeekDay
    /\ pre = file
    /\ preArchive = archive
    /\ op = OpRec("none", "", "", NoInput, FALSE, 0, "", "none")
    /\ assigned = {}
    /\ addRun = <<>>
    /\ answer = <<>>
    /\ archivedOn = {}
    /\ ElsewhereInit

NextDue ==
    \/ \E inp \in DueInputs : CanAdd(MaxDueRows) /\ AddTodo(inp, "none") /\ Elsewhere
    \/ \E id \in IdArgs : UpdateTodoStatus(id, "Done", "none") /\ Elsewhere
    \/ GetTodosDueToday /\ Elsewhere

SpecDue ==
    InitDue /\ [][NextDue]_vars

\* a client that adds, completes and archives todos and looks at the active
\* list, with the clock passing midnight between its calls
NextClock ==
    \/ \E inp \in AddInputs : CanAdd(MaxActiveRows) /\ AddTodo(inp, "none") /\ Elsewhere
    \/ \E id \in IdArgs : UpdateTodoStatus(id, "Done", "none") /\ Elsewhere
    \/ Sections(archive) < MaxActiveArchive /\ ArchiveDoneTodos("none") /\ Elsewhere
    \/ today < MaxDay /\ Tick /\ Elsewhere
    \/ GetActiveTodos /\ Elsewhere

SpecClock ==
    Init /\ [][NextClock]_vars

\* a client that passes add_todo whatever strings it has
NextCaller ==
    \/ Initialize /\ Elsewhere
    \/ \E inp \in CallerInputs : CanAdd(MaxCallerRows) /\ AddTodo(inp, "none") /\ Elsewhere
    \/ \E id \in IdArgs : UpdateTodoStatus(id, "Done", "none") /\ Elsewhere

SpecCaller ==
    Init /\ [][NextCaller]_vars

\* a client whose calls meet I/O failures: every operation, with every
\* failure its reads and writes can raise
NextIO ==
    \/ Initialize /\ Elsewhere
    \/ \E fail \in {ReadFail, OpenFail, WriteFail} : InitializeRaises(fail) /\ Elsewhere
    \/ \E inp \in AddInputs, fail \in {"none", ReadFail, OpenFail} :
          CanAdd(MaxIORows) /\ AddTodo(inp, fail) /\ Elsewhere
    \/ \E id \in IdArgs, fail \in RmwFails : UpdateTodoStatus(id, "Done", fail) /\ Elsewhere
    \/ \E id \in IdArgs, fail \in RmwFails : DeleteTodo(id, fail) /\ Elsewhere
    \/ \E id \in IdArgs, fail \in RmwFails : SetCommitted(id, fail) /\ Elsewhere
    \/ \E id \in IdArgs, fail \in RmwFails : ClearCommitted(id, fail) /\ Elsewhere
    \/ \E fail \in RmwFails \cup {ArchiveOpenFail, ArchiveWriteFail} :
          Sections(archive) < MaxIOArchive /\ ArchiveDoneTodos(fail) /\ Elsewhere
    \/ \E fail \in {"none", ReadFail} : GetAllTodos(fail) /\ Elsewhere

SpecIO ==
    Init /\ [][NextIO]_vars

\* a client that may make any call again: archive_done_todos can always be
\* called right after archive_done_todos
NextRetry ==
    \/ \E inp \in AddInputs : CanAdd(MaxRetryRows) /\ AddTodo(inp, "none") /\ Elsewhere
    \/ \E id \in IdArgs, s \in Statuses : UpdateTodoStatus(id, s, "none") /\ Elsewhere
    \/ \E id \in IdArgs : DeleteTodo(id, "none") /\ Elsewhere
    \/ \E id \in IdArgs : SetCommitted(id, "none") /\ Elsewhere
    \/ \E id \in IdArgs : ClearCommitted(id, "none") /\ Elsewhere
    \/ /\ Sections(archive) < MaxRetryArchive \/ op.name = "archive_done"
       /\ ArchiveDoneTodos("none") /\ Elsewhere

SpecRetry ==
    Init /\ [][NextRetry]_vars

\* two threads calling the repository, with the callers' lock or without
InitThreads ==
    /\ file \in InitialFiles
    /\ archive = [exists |-> FALSE, lines |-> <<>>]
    /\ today = 0
    /\ pre = file
    /\ preArchive = archive
    /\ op = OpRec("none", "", "", NoInput, FALSE, 0, "", "none")
    /\ assigned = {}
    /\ addRun = <<>>
    /\ answer = <<>>
    /\ archivedOn = {}
    /\ threads = [t \in Threads |-> IdleThread]
    /\ mutex \in BOOLEAN
    /\ worklog = <<>>
    /\ unfinished = NoScan
    /\ app = NewApp
    /\ extract = NoExtract
    /\ hourly = NewHour

NextThreads ==
    \/ \E t \in Threads, call \in ThreadCalls :
          /\ threads[t].calls < MaxThreadCalls
          /\ call.name = "add" => CanAdd(MaxThreadRows)
          /\ ThreadRead(t, call)
    \/ \E t \in Threads : ThreadWrite(t)

SpecThreads ==
    InitThreads /\ [][NextThreads]_vars

\* a client that calls archive_done again after a call that failed
NextArchiveRetry ==
    \/ \E inp \in AddInputs : CanAdd(MaxFailRows) /\ AddTodo(inp, "none") /\ Elsewhere
    \/ \E id \in IdArgs : UpdateTodoStatus(id, "Done", "none") /\ Elsewhere
    \/ \E fail \in {"none", OpenFail, WriteFail, ArchiveWriteFail} :
          /\ Sections(archive) < MaxFailArchive
          /\ ArchiveDoneTodos(fail)
          /\ Elsewhere

SpecArchiveRetry ==
    Init /\ [][NextArchiveRetry]_vars

\* a client of a file an older version wrote
InitMigrate ==
    /\ file \in InitialFiles \cup
                 { [exists |-> TRUE,
                    rows |-> <<SubSeq(HEADERS, 1, n), SubSeq(UsedRow, 1, n)>>] :
                       n \in Len(LegacyHeader)..Len(HEADERS) }
    /\ archive = [exists |-> FALSE, lines |-> <<>>]
    /\ today \in 0..MaxDay
    /\ pre = file
    /\ preArchive = archive
    /\ op = OpRec("none", "", "", NoInput, FALSE, 0, "", "none")
    /\ assigned = {}
    /\ addRun = <<>>
    /\ answer = <<>>
    /\ archivedOn = {}
    /\ ElsewhereInit

NextMigrate ==
    \/ Initialize /\ Elsewhere
    \/ \E inp \in AddInputs : CanAdd(MaxMigrateRows) /\ AddTodo(inp, "none") /\ Elsewhere
    \/ \E id \in IdArgs, s \in Statuses : UpdateTodoStatus(id, s, "none") /\ Elsewhere
    \/ \E id \in IdArgs : SetCommitted(id, "none") /\ Elsewhere
    \/ \E id \in IdArgs : ClearCommitted(id, "none") /\ Elsewhere
    \/ Sections(archive) < MaxArchive /\ ArchiveDoneTodos("none") /\ Elsewhere

SpecMigrate ==
    InitMigrate /\ [][NextMigrate]_vars

\* a client whose process can die inside a write and is started again
NextCrash ==
    \/ Initialize /\ Elsewhere
    \/ \E inp \in AddInputs : CanAdd(MaxCrashRows) /\ AddTodo(inp, "none") /\ Elsewhere
    \/ \E id \in IdArgs : UpdateTodoStatus(id, "Done", "none") /\ Elsewhere
    \/ \E id \in IdArgs : DeleteTodo(id, "none") /\ Elsewhere
    \/ \E id \in IdArgs : UpdateTodoStatusKilled(id, "Done") /\ Elsewhere
    \/ \E id \in IdArgs : DeleteTodoKilled(id) /\ Elsewhere

SpecCrash ==
    Init /\ [][NextCrash]_vars

\* the tracker writing the day's log and checking it for an open session
InitLog ==
    /\ StoreInit
    /\ ElsewhereInit

NextLog ==
    \/ \E title \in {"DAY STARTED", "DAY ENDED", "END OF DAY SUMMARY", "Fix login bug"},
             time \in 0..MaxLogTime : LogTask(title, time)
    \/ FindUnfinishedSession

SpecLog ==
    InitLog /\ [][NextLog]_vars

\* the tracker's buttons and timers
NextApp ==
    \/ TickClock
    \/ StartTracking
    \/ \E timer \in app.pending : HourlyCheckin(timer)
    \/ StopTracking
    \/ FinalizeStopUi
    \/ \E end_time \in {NoTime} \cup ((app.now + 1)..(app.now + MaxFocus)) :
           StartHyperFocus(end_time)
    \/ EndHyperFocus
    \/ \E timer \in app.pending : ResumeTimerFires(timer)

SpecApp ==
    InitLog /\ [][NextApp]_vars

\* the tracker's Start Day and Stop / End Day buttons and its check-in timer
NextTrack ==
    \/ TickClock
    \/ StartTracking
    \/ \E timer \in app.pending : HourlyCheckin(timer)
    \/ StopTracking
    \/ FinalizeStopUi

SpecTrack ==
    InitLog /\ [][NextTrack]_vars

\* the tracker left running: Start Day once, no Stop / End Day
NextFocus ==
    \/ TickClock
    \/ StartTracking
    \/ \E timer \in app.pending : HourlyCheckin(timer)
    \/ \E end_time \in {NoTime} \cup ((app.now + 1)..(app.now + MaxFocus)) :
           StartHyperFocus(end_time)
    \/ EndHyperFocus
    \/ \E timer \in app.pending : ResumeTimerFires(timer)

SpecFocus ==
    InitLog /\ [][NextFocus]_vars

\* the tracker's hours: tasks, check-ins and the summary thread
NextHour ==
    \/ TickHour
    \/ \E details \in Tickets \cup {"cancelled"} : StartHour(details)
    \/ \E details \in Tickets : AddTask(details)
    \/ CheckinStartsSummary
    \/ \E details \in Tickets \cup {"cancelled"} : CheckinResetsHour(details)
    \/ SummaryCheck
    \/ SummaryDuration
    \/ SummaryTickets
    \/ SummaryRow

SpecHour ==
    InitLog /\ [][NextHour]_vars

\* extract_due applied to texts and reference dates
InitExtract ==
    /\ StoreInit
    /\ threads = [t \in Threads |-> IdleThread]
    /\ mutex = TRUE
    /\ worklog = <<>>
    /\ unfinished = NoScan
    /\ app = NewApp
    /\ hourly = NewHour
    /\ \E text \in UNION {[1..n -> DueWords] : n \in 0..MaxWords}, reference_date \in 0..MaxRefDay :
           extract = [text |-> text, reference |-> reference_date, due |-> Absent,
                      done |-> FALSE]

SpecExtract ==
    InitExtract /\ [][ExtractDue]_vars

----------------------------------------------------------------------------
(* The stored records *)

\* the data rows: the non-empty rows after the first (the rows every loop
\* over rows[1:] with "if r" visits, and the rows csv.DictReader returns)
DataRows(f) ==
    IF ~f.exists THEN <<>> ELSE SelectSeq(Rest(f.rows), LAMBDA r : r # <<>>)

\* a row read through the code's column map: the field HEADERS names at
\* each position, a missing trailing field reading ""
Rec(row) ==
    [n \in Range(HEADERS) |-> PadRow(row)[HeaderIndex(n)]]

\* the stored records, in file order
Records(f) ==
    [i \in 1..Len(DataRows(f)) |-> Rec(DataRows(f)[i])]

\* the ids of the stored records
Ids(f) ==
    {Records(f)[i].ID : i \in 1..Len(Records(f))}

\* recurrence daily or specific_days
Recurring(rec) ==
    rec.Repeat \in {"daily", "specific_days"}

\* the file holds the current header: what initialize() leaves of a missing
\* file, of a file it created and of a legacy file
Initialized(f) ==
    f.exists /\ f.rows # <<>> /\ f.rows[1] = HEADERS

\* the file starts with a header row the program wrote: the current one
\* or the six-column one of the older version
HasHeader(f) ==
    f.exists /\ f.rows # <<>> /\ f.rows[1] \in {HEADERS, LegacyHeader}

\* what the last operation appended to the archive document
Appended ==
    SubSeq(archive.lines, Len(preArchive.lines) + 1, Len(archive.lines))

----------------------------------------------------------------------------
(* Archiving *)

\* C1: when archive_done returns a positive count, every record that was
\* Done and not recurring before the call is no longer stored (no record
\* has its id, its row is gone), and a line holding its description was
\* appended to the archive document.
C1_DoneOneOffArchivedAndGone ==
    (op.name = "archive_done" /\ op.count > 0) =>
        \A i \in 1..Len(Records(pre)) :
            LET r == Records(pre)[i]
            IN  (r.Status = "Done" /\ ~Recurring(r)) =>
                    /\ r.ID \notin Ids(file)
                    /\ DataRows(pre)[i] \notin Range(DataRows(file))
                    /\ Len(GetAll(file)) = Len(Records(file))
                    /\ \E k \in 1..Len(Appended) :
                          /\ Appended[k][1] = "- [x] **"
                          /\ Appended[k][2] = r.Task

\* C1 witness: an archive_done call returned a positive count on a store
\* holding a Done one-off record next to a record that was not Done
C1_Witness ==
    /\ op.name = "archive_done" /\ op.count > 0
    /\ \E i, j \in 1..Len(Records(pre)) :
          /\ Records(pre)[i].Status = "Done" /\ ~Recurring(Records(pre)[i])
          /\ Records(pre)[j].Status = "Pending"
    /\ Len(Records(file)) > 0

C3_NotArchivedAndStillDone ==
    op.name = "archive_done" =>
        \A i \in 1..Len(DataRows(file)) :
            LET row == DataRows(file)[i]
            IN  ~ /\ Rec(row).Status = "Done"
                  /\ row \in Range(DataRows(pre))
                  /\ ArchiveLine(row) \in Range(Appended)

----------------------------------------------------------------------------
(* Ids *)

\* C4: the id an add assigns is never an id an earlier add assigned, also
\* after deletions (ids are never reused); stated for adds on a file that
\* holds the current header.
C4_IdsNeverReused ==
    [][\A inp \in AddInputs :
          (Initialized(file) /\ AddTodo(inp, "none")) =>
              Str(NextIdNum(ReadRows(file))) \notin assigned]_vars

\* C5: on an initialized store (the file holds the current header), the
\* ids assigned by a sequence of add calls with no other operation in
\* between are pairwise distinct and strictly increasing in call order.
C5_AddRunIdsIncrease ==
    Initialized(file) =>
        \A i, j \in 1..Len(addRun) :
            i < j => /\ addRun[i] # addRun[j]
                     /\ IsInt(addRun[i]) /\ IsInt(addRun[j])
                     /\ ParseInt(addRun[i]) < ParseInt(addRun[j])

\* C5 witness: three adds in a row on an initialized store
C5_Witness ==
    Initialized(file) /\ Len(addRun) = 3 /\ op.name = "add" /\ op.ok

----------------------------------------------------------------------------
(* add, update_status, delete *)

\* C6: on an initialized store, after a successful add get_all returns one
\* record more: the records from before, unchanged and in the same order,
\* then the new record, with status Pending, the description, priority,
\* notes, recurrence and days given, and an id greater than every id
\* present before.
C6_AddThenGetAll ==
    (op.name = "add" /\ op.ok /\ Initialized(pre)) =>
        LET G == GetAll(file)
            P == GetAll(pre)
            n == Len(G)
        IN  /\ n = Len(P) + 1
            /\ SubSeq(G, 1, n - 1) = P
            /\ G[n].f = Records(file)[n]
            /\ G[n].f.Status = "Pending"
            /\ G[n].f.Task = op.inp.task
            /\ G[n].f.Priority = op.inp.priority
            /\ G[n].f.Notes = op.inp.notes
            /\ G[n].f.Repeat = op.inp.repeat
            /\ G[n].f.Days = op.inp.days
            /\ G[n].f.ID = op.newid
            /\ \A i \in 1..Len(P) :
                  /\ IsInt(P[i].f.ID)
                  /\ ParseInt(G[n].f.ID) > ParseInt(P[i].f.ID)

\* C6 witness: a specific_days todo with its days was added to an
\* initialized store that held two records
C6_Witness ==
    /\ op.name = "add" /\ op.ok /\ Initialized(pre)
    /\ Len(GetAll(pre)) = 2
    /\ op.inp.repeat = "specific_days" /\ op.inp.days = "0,4"

\* the first stored record with the id (the one update_status changes)
FirstWithId(f, id) ==
    CHOOSE k \in 1..Len(Records(f)) :
        /\ Records(f)[k].ID = id
        /\ \A j \in 1..Len(Records(f)) : Records(f)[j].ID = id => k <= j

C8_UnknownIdNoOp ==
    (/\ op.name \in {"update_status", "set_committed", "clear_committed"}
     /\ op.id \notin Ids(pre)) =>
        ~op.ok /\ file = pre

\* C8 witness: set_committed was called with an id that is not stored, on
\* a store holding records
C8_Witness ==
    /\ op.name = "set_committed" /\ op.id \notin Ids(pre)
    /\ Len(Records(pre)) >= 1
    /\ ~op.ok

\* C9: delete(id) on a stored id returns true and removes exactly the
\* records with that id: the others remain, unchanged and in order.
C9_DeleteRemovesExactlyId ==
    (op.name = "delete" /\ op.id \in Ids(pre)) =>
        /\ op.ok
        /\ op.id \notin Ids(file)
        /\ DataRows(file) = SelectSeq(DataRows(pre), LAMBDA r : Rec(r).ID # op.id)
        /\ Len(GetAll(file)) = Len(DataRows(file))
        /\ file.rows # <<>> /\ file.rows[1] = pre.rows[1]

\* C9 witness: the middle record of three was deleted
C9_Witness ==
    /\ op.name = "delete" /\ op.ok
    /\ Len(Records(pre)) = 3 /\ Records(pre)[2].ID = op.id
    /\ Len(Records(file)) = 2

\* C10: delete(id) on an id that is not stored returns true and leaves the
\* stored records unchanged.
C10_DeleteUnknownReturnsTrue ==
    (op.name = "delete" /\ op.id \notin Ids(pre)) =>
        op.ok /\ Records(file) = Records(pre)

----------------------------------------------------------------------------
(* archive_done with nothing to archive; initialize *)

\* C11: when no stored record has status Done, archive_done returns 0 and
\* writes nothing: the archive document is as it was (not created, nothing
\* appended) and the store file is as it was.
C11_NoDoneNoWrite ==
    (/\ op.name = "archive_done"
     /\ \A i \in 1..Len(Records(pre)) : Records(pre)[i].Status # "Done") =>
        /\ op.count = 0
        /\ archive = preArchive
        /\ file = pre

\* C11 witness: archive_done was called on a store holding records, none
\* of them Done, while no archive document existed
C11_Witness ==
    /\ op.name = "archive_done" /\ op.fail = "none"
    /\ Len(Records(pre)) >= 2
    /\ \A i \in 1..Len(Records(pre)) : Records(pre)[i].Status # "Done"
    /\ ~preArchive.exists /\ ~archive.exists

C13_InitializeIdempotent ==
    [][(op.name = "initialize" /\ Initialize) => file' = file]_vars

\* C13 witness: initialize() returned on a six-column file that an
\* initialize() before it had migrated
C13_Witness ==
    /\ op.name = "initialize" /\ pre = file
    /\ file.exists /\ file.rows # <<>> /\ file.rows[1] = HEADERS
    /\ \E i \in 1..Len(Records(file)) : Records(file)[i].Task = "Old task"

\* C14: after initialize() the file exists and its first row is the
\* current header, whatever the path held before.
C14_InitializeLeavesHeader ==
    op.name = "initialize" =>
        file.exists /\ file.rows # <<>> /\ file.rows[1] = HEADERS

----------------------------------------------------------------------------
(* Queries *)

\* C15: every record get_all returns has every current column as a field,
\* also on a file whose header predates some columns.
C15_GetAllFullyPopulated ==
    \A i \in 1..Len(GetAll(file)) :
        \A n \in Range(HEADERS) : n \in DOMAIN GetAll(file)[i].f

\* the ids of a list of the dicts get_all returns, in order
IdsOf(todos) ==
    [i \in 1..Len(todos) |-> Field(todos[i], "ID")]

\* the ids of the dicts the last query returned
AnswerIds ==
    IdsOf(answer)

\* the ids of a list of stored records, in order
RecordIds(recs) ==
    [i \in 1..Len(recs) |-> recs[i].ID]

\* C16: on a file with a header row, the list get_todos_due_today returns
\* holds, in file order, every stored record with recurrence daily and
\* every one with recurrence specific_days whose days hold today's weekday,
\* whatever its status, and no other record (none with recurrence none).
C16_DueTodayExact ==
    (op.name = "get_due_today" /\ HasHeader(file)) =>
        AnswerIds = RecordIds(SelectSeq(Records(file), LAMBDA r :
                        \/ r.Repeat = "daily"
                        \/ /\ r.Repeat = "specific_days"
                           /\ (today % 7) \in Range(ParseDays(r.Days))))

\* C17: on a file with a header row, the list get_active_todos returns
\* holds, in file order, every stored record that is not repeating and
\* every repeating one whose last_completed_on is not today's date.
C17_ActiveListExact ==
    (op.name = "get_active" /\ HasHeader(file)) =>
        AnswerIds = RecordIds(SelectSeq(Records(file), LAMBDA r :
                        ~Recurring(r) \/ r.LastCompleted # DateStr(today)))

\* C18: when get_active_todos is called on a file with a header row, a
\* record archive_done_todos reset (a repeating record that was Done)
\* earlier on the same day is not in the list, and one it last reset on an
\* earlier day is.
C18_HiddenTodayBackTomorrow ==
    (op.name = "get_active" /\ HasHeader(file)) =>
        \A p \in archivedOn :
            /\ p[2] = today => p[1] \notin Range(AnswerIds)
            /\ p[2] < today => p[1] \in Range(AnswerIds)

\* C19: on a file with a header row, get_committed_todos called right
\* after set_committed(id) returned true returns a list that holds the
\* record with that id, and called right after clear_committed(id) returned
\* true a list that does not.
C19_CommittedSetFollowsCalls ==
    [][(HasHeader(file) /\ op.ok /\ GetCommittedTodos) =>
          /\ op.name = "set_committed" => op.id \in Range(AnswerIds')
          /\ op.name = "clear_committed" => op.id \notin Range(AnswerIds')]_vars

\* the ids and the fields other than committed_at that the queries and the
\* archiving read, of the records get_all returns
Untagged(f) ==
    [i \in 1..Len(GetAll(f)) |->
        [n \in {"ID", "Status", "Repeat", "Days", "LastCompleted"} |->
            Field(GetAll(f)[i], n)]]

\* the ids of the list get_todos_due_today returns on file f on day d
DueIds(f, d) ==
    IdsOf(SelectSeq(GetAll(f), LAMBDA t : IsDueToday(t, d)))

\* the ids of the list get_active_todos returns on file f on day d
ActiveIds(f, d) ==
    IdsOf(SelectSeq(GetAll(f), LAMBDA t : IsActiveToday(t, d)))

\* C20: set_committed and clear_committed leave every stored record as it
\* was in every field but committed_at, and with it the status, recurrence,
\* days and last_completed_on get_all returns, the due-today list and the
\* active list.
C20_CommitmentIsATag ==
    op.name \in {"set_committed", "clear_committed"} =>
        /\ Len(Records(file)) = Len(Records(pre))
        /\ \A i \in 1..Len(Records(pre)) :
              /\ \A n \in Range(HEADERS) \ {"CommittedAt"} :
                    Records(file)[i][n] = Records(pre)[i][n]
              /\ Records(pre)[i].ID # op.id => DataRows(file)[i] = DataRows(pre)[i]
        /\ Untagged(file) = Untagged(pre)
        /\ DueIds(file, today) = DueIds(pre, today)
        /\ ActiveIds(file, today) = ActiveIds(pre, today)

\* C20 witness: set_committed stamped a record of a store in which a record
\* is due today and a record is hidden from the active list
C20_Witness ==
    /\ op.name = "set_committed" /\ op.ok
    /\ \E i \in 1..Len(Records(file)) :
          /\ Records(file)[i].ID = op.id
          /\ Records(file)[i].CommittedAt = TimeStr(today)
          /\ Records(pre)[i].CommittedAt = ""
    /\ Len(Records(file)) >= 2
    /\ DueIds(file, today) # <<>>
    /\ Len(ActiveIds(file, today)) < Len(Records(file))

----------------------------------------------------------------------------
(* Validation of add's inputs *)

\* C21: add with an empty description fails and appends no row: the result
\* is false, the file is as it was and no id was assigned.
C21_EmptyDescriptionRejected ==
    (op.name = "add" /\ op.inp.task = "") =>
        ~op.ok /\ file = pre /\ op.newid = ""

\* C22: in every reachable state every stored record whose recurrence is
\* specific_days has at least one day.
C22_SpecificDaysHaveDays ==
    \A i \in 1..Len(Records(file)) :
        Records(file)[i].Repeat = "specific_days" =>
            ParseDays(Records(file)[i].Days) # <<>>

----------------------------------------------------------------------------
(* I/O failures *)

\* C23: when the file I/O of a store operation fails, no exception leaves
\* the operation and it returns a failure value: false, the count 0, or an
\* empty list from get_all.
C23_IOErrorsReported ==
    op.fail # "none" =>
        /\ ~op.raised
        /\ ~op.ok
        /\ op.count = 0
        /\ op.name = "get_all" => answer = <<>>

----------------------------------------------------------------------------
(* Repeated calls *)

\* the rows of f with the committed_at field of the rows with the id blanked
Unstamped(f, id) ==
    [i \in 1..Len(f.rows) |->
        IF i > 1 /\ f.rows[i] # <<>> /\ f.rows[i][1] = id
           /\ Len(f.rows[i]) >= HeaderIndex("CommittedAt")
        THEN [f.rows[i] EXCEPT ![HeaderIndex("CommittedAt")] = ""]
        ELSE f.rows[i]]

\* C24: a call of update_status(id, s), delete(id), set_committed(id),
\* clear_committed(id) or archive_done(path) made right after the same call
\* leaves the store file and the archive document as the first call left
\* them (up to the timestamp set_committed writes) and returns what the first
\* returned; the second archive_done returns 0.
C24_RepeatChangesNothing ==
    [][/\ \A id \in IdArgs, s \in Statuses :
             (/\ op.name = "update_status" /\ op.id = id /\ op.status = s
              /\ UpdateTodoStatus(id, s, "none")) =>
                 file' = file /\ archive' = archive /\ op'.ok = op.ok
       /\ \A id \in IdArgs :
             (op.name = "delete" /\ op.id = id /\ DeleteTodo(id, "none")) =>
                 file' = file /\ archive' = archive /\ op'.ok = op.ok
       /\ \A id \in IdArgs :
             (op.name = "set_committed" /\ op.id = id /\ SetCommitted(id, "none")) =>
                 /\ file'.exists = file.exists
                 /\ Unstamped(file', id) = Unstamped(file, id)
                 /\ IdsOf(SelectSeq(GetAll(file'), LAMBDA t : IsCommitted(t)))
                      = IdsOf(SelectSeq(GetAll(file), LAMBDA t : IsCommitted(t)))
                 /\ archive' = archive /\ op'.ok = op.ok
       /\ \A id \in IdArgs :
             (op.name = "clear_committed" /\ op.id = id /\ ClearCommitted(id, "none")) =>
                 file' = file /\ archive' = archive /\ op'.ok = op.ok
       /\ (op.name = "archive_done" /\ ArchiveDoneTodos("none")) =>
             file' = file /\ archive' = archive /\ op'.count = 0
      ]_vars

\* C24 witness: archive_done returned 0 and wrote nothing right after an
\* archive_done that had appended a section and reset a recurring record
C24_Witness ==
    /\ op.name = "archive_done" /\ op.count = 0
    /\ file = pre /\ archive = preArchive
    /\ Sections(archive) >= 1
    /\ \E p \in archivedOn :
          \E i \in 1..Len(Records(file)) :
              /\ Records(file)[i].ID = p[1]
              /\ Records(file)[i].Status = "Pending"
              /\ Records(file)[i].LastCompleted = DateStr(today)

----------------------------------------------------------------------------
(* Calls from several threads *)

\* C25: without the lock, when a thread appends the row of an add whose
\* read saw the table that the add another thread has just completed also
\* saw (both read before either appended), the two new records have the
\* same id; with the lock, the ids of the stored records are pairwise
\* distinct in every state.
C25_DuplicateIdsUnlessSerialized ==
    [][/\ \A t \in Threads : \A u \in Threads \ {t} :
             (/\ ~mutex
              /\ threads[t].pc = "read" /\ threads[t].name = "add"
              /\ op.name = "add" /\ op.by = u
              /\ op.seen = threads[t].rows
              /\ ThreadWrite(t)) =>
                 LET n == Len(file'.rows)
                 IN  /\ op'.newid = op.newid
                     /\ file'.rows[n][1] = op.newid
                     /\ file'.rows[n - 1][1] = op.newid
       /\ mutex =>
             \A i, j \in 1..Len(Records(file')) :
                 i < j => Records(file')[i].ID # Records(file')[j].ID
      ]_vars

\* C25 witness: without the lock, both threads have completed their calls
\* on an initialized store, the last of them an add, and the last two
\* records have the same id
C25_Witness ==
    /\ ~mutex /\ Initialized(file)
    /\ op.name = "add" /\ op.ok /\ op.by \in Threads
    /\ \A t \in Threads : threads[t].pc = "idle"
    /\ Len(Records(file)) >= 2
    /\ Records(file)[Len(Records(file))].ID = Records(file)[Len(Records(file)) - 1].ID

\* whether the file shows what the last call, a mutation that returned
\* true, did: get_all returns the added record, the new status, no record
\* with the deleted id, the commitment or its absence
EffectVisible(f, call) ==
    LET all == GetAll(f)
        mine == {i \in 1..Len(all) :
                    Field(all[i], "ID") = (IF call.name = "add" THEN call.newid
                                          ELSE call.id)}
    IN  CASE call.name = "add" ->
               \E i \in mine : Field(all[i], "Task") = call.inp.task
          [] call.name = "update_status" ->
               \E i \in mine : Field(all[i], "Status") = call.status
          [] call.name = "delete" -> mine = {}
          [] call.name = "set_committed" -> \E i \in mine : IsCommitted(all[i])
          [] call.name = "clear_committed" -> \E i \in mine : ~IsCommitted(all[i])
          [] OTHER -> TRUE

\* C26: without the lock, when a thread writes the whole table after
\* another call changed the file since the thread read it, the file holds
\* for every other id the rows the thread read: what the other call did to
\* them is gone; with the lock, after every mutation that returned true
\* get_all shows its effect.
C26_LostUpdateUnlessSerialized ==
    [][/\ \A t \in Threads :
             (/\ ~mutex
              /\ threads[t].pc = "read"
              /\ threads[t].name \in {"update_status", "delete", "set_committed",
                                      "clear_committed"}
              /\ ReadRows(file) # threads[t].rows
              /\ ThreadWrite(t)
              /\ op'.ok) =>
                 SelectSeq(Rest(file'.rows),
                           LAMBDA r : r # <<>> /\ r[1] # threads[t].id)
                   = SelectSeq(Rest(threads[t].rows),
                               LAMBDA r : r # <<>> /\ r[1] # threads[t].id)
       /\ (mutex /\ op'.by \in Threads /\ op'.ok) => EffectVisible(file', op')
      ]_vars

----------------------------------------------------------------------------
(* The process dying inside a call *)

\* C27: when the process dies during a mutating operation, the file holds
\* afterwards either the complete table it held before the operation or
\* the complete table the operation was writing.
C27_LastCompleteWriteWins ==
    op.fail = "killed" =>
        \/ file = pre
        \/ /\ op.name = "update_status"
           /\ file.rows = PatchRow(ReadRows(pre), op.id, HeaderIndex("Status"),
                                   op.status)
        \/ /\ op.name = "delete"
           /\ file.rows = DeletedRows(ReadRows(pre), op.id)

----------------------------------------------------------------------------
(* The unfinished-session check *)

\* C28: the check returns the start time of the most recent DAY STARTED row
\* that has no DAY ENDED row after it, and none when the log has no marker
\* rows or a DAY ENDED row follows the last DAY STARTED row.
C28_UnfinishedSessionIsLastOpenStart ==
    LET tasks == unfinished.tasks
        started == {i \in 1..Len(tasks) : tasks[i].Title = "DAY STARTED"}
        ended == {i \in 1..Len(tasks) : tasks[i].Title = "DAY ENDED"}
        open == {i \in started : \A j \in ended : j < i}
    IN  /\ open # {} =>
              \E i \in open :
                  /\ \A j \in open : j <= i
                  /\ unfinished.result = tasks[i].start_time_obj
        /\ open = {} => unfinished.result = NoTime
        /\ started \cup ended = {} => unfinished.result = NoTime
        /\ (\E i \in started :
                /\ \A j \in started : j <= i
                /\ \E j \in ended : j > i) => unfinished.result = NoTime

\* a session closed, a later one open, and its start found
C28_Witness ==
    LET tasks == unfinished.tasks
    IN  /\ unfinished.result # NoTime
        /\ \E i, j, k \in 1..Len(tasks) :
               /\ i < j /\ j < k
               /\ tasks[i].Title = "DAY STARTED"
               /\ tasks[j].Title = "DAY ENDED"
               /\ tasks[k].Title = "DAY STARTED"
               /\ tasks[i].start_time_obj < tasks[k].start_time_obj
               /\ unfinished.result = tasks[k].start_time_obj

----------------------------------------------------------------------------
(* Hyper focus *)

\* C29: starting hyper focus sets it active, cancels the pending check-in
\* timer (timer_id becomes none) and schedules an auto-resume timer only
\* when an end time is given; ending it clears the active flag and the end
\* time, cancels the pending auto-resume timer and schedules exactly one
\* check-in timer at the configured interval; no check-in timer is pending
\* while hyper focus is active.
C29_HyperFocusSuspendsCheckins ==
    [][/\ app'.last = "_start_hyper_focus" =>
              /\ app'.hyper_focus_active
              /\ app'.timer_id = NoTimer
              /\ \A t \in app.pending : t.id = app.timer_id => t \notin app'.pending
              /\ IF app'.hyper_focus_end_time = NoTime
                 THEN PendingFor(app', "_end_hyper_focus")
                          = PendingFor(app, "_end_hyper_focus")
                 ELSE \E t \in app'.pending \ app.pending :
                          /\ t.callback = "_end_hyper_focus"
                          /\ t.due = app'.hyper_focus_end_time
                          /\ t.id = app'.hyper_focus_timer_id
       /\ app'.last = "_end_hyper_focus" =>
              /\ ~app'.hyper_focus_active
              /\ app'.hyper_focus_end_time = NoTime
              /\ app'.hyper_focus_timer_id = NoTimer
              /\ \A t \in app.pending :
                     t.id = app.hyper_focus_timer_id => t \notin app'.pending
              /\ Cardinality(PendingFor(app', "hourly_checkin")
                                 \ PendingFor(app, "hourly_checkin")) = 1
              /\ \E t \in app'.pending \ app.pending :
                     /\ t.callback = "hourly_checkin"
                     /\ t.due = app.now + CheckinInterval
                     /\ t.id = app'.timer_id
       /\ app'.hyper_focus_active => PendingFor(app', "hourly_checkin") = {}
      ]_vars

----------------------------------------------------------------------------
(* The due-date extractor *)

\* C30: extract_due returns the result of the first rule that matches, in
\* the order named phrase (the longest one the text contains), 12-hour
\* clock with minutes, 12-hour clock without minutes, 24-hour clock,
\* date only (today/tomorrow), absent, on the reference date or on the next
\* day when the text contains tomorrow; a clock that is no time of day is
\* skipped and the next rule is tried.
C30_FirstMatchingRuleWins ==
    extract.done =>
        LET text == extract.text
            due == extract.due
            Has(w) == \E i \in 1..Len(text) : text[i].text = w
            target == IF Has("tomorrow") THEN extract.reference + 1
                      ELSE extract.reference
            len == [p \in {"end of day", "afternoon", "midnight", "morning",
                           "evening", "noon", "eod"} |->
                       CASE p = "end of day" -> 10
                         [] p = "afternoon" -> 9
                         [] p = "midnight" -> 8
                         [] p \in {"morning", "evening"} -> 7
                         [] p = "noon" -> 4
                         [] p = "eod" -> 3]
            time == [p \in DOMAIN len |->
                       CASE p \in {"end of day", "eod"} -> 17
                         [] p = "noon" -> 12
                         [] p = "midnight" -> 0
                         [] p = "morning" -> 9
                         [] p = "afternoon" -> 14
                         [] p = "evening" -> 18]
            present == {p \in DOMAIN len : Has(p) \/ (p = "noon" /\ Has("afternoon"))}
            First(form) == {i \in 1..Len(text) :
                               /\ text[i].form = form
                               /\ \A j \in 1..(i - 1) : text[j].form # form}
            Ok12(form) == \E i \in First(form) :
                              /\ text[i].hour \in 1..12
                              /\ text[i].minute \in 0..59
            Ok24 == \E i \in First("24") :
                        /\ text[i].hour \in 0..23
                        /\ text[i].minute \in 0..59
            At(hour, minute) == /\ due.kind = "datetime"
                                /\ due.date = target
                                /\ due.hour = hour
                                /\ due.minute = minute
            Is12(form) == \E i \in First(form) :
                              At(IF text[i].pm
                                 THEN (IF text[i].hour = 12 THEN 12 ELSE text[i].hour + 12)
                                 ELSE (IF text[i].hour = 12 THEN 0 ELSE text[i].hour),
                                 text[i].minute)
        IN  /\ due.kind \in {"absent", "date", "datetime"}
            /\ present # {} =>
                   \E p \in present :
                       /\ \A q \in present : len[q] <= len[p]
                       /\ At(time[p], 0)
            /\ (present = {} /\ Ok12("12m")) => Is12("12m")
            /\ (present = {} /\ ~Ok12("12m") /\ Ok12("12")) => Is12("12")
            /\ (present = {} /\ ~Ok12("12m") /\ ~Ok12("12") /\ Ok24) =>
                   \E i \in First("24") : At(text[i].hour, text[i].minute)
            /\ (present = {} /\ ~Ok12("12m") /\ ~Ok12("12") /\ ~Ok24) =>
                   IF Has("today") \/ Has("tomorrow")
                   THEN due.kind = "date" /\ due.date = target
                   ELSE due.kind = "absent"

\* a clock that is no time of day was skipped and a later rule decided
C30_Witness ==
    /\ extract.done
    /\ extract.text = <<Clock("3:75pm", "12m", 3, 75, TRUE), Word("tomorrow")>>
    /\ extract.due = [kind |-> "date", date |-> extract.reference + 1,
                      hour |-> 0, minute |-> 0]

----------------------------------------------------------------------------
(* Conservation, frame and retry of archive_done *)

\* the record lines the last operation appended to the archive document
AppendedRecordLines ==
    {k \in 1..Len(Appended) : Appended[k][1] = "- [x] **"}

\* C31: for every archive_done call the returned count equals the number
\* of record lines appended to the archive document and the number of
\* records removed plus the number reset, and, when the call met no I/O
\* error, the number of records that had status Done; every record a call
\* removed or reset has its line among the lines that call appended.
C31_ArchiveConservation ==
    op.name = "archive_done" =>
        /\ op.count = Cardinality(AppendedRecordLines)
        /\ op.count = (Len(DataRows(pre)) - Len(DataRows(file)))
                        + Cardinality({j \in 1..Len(DataRows(file)) :
                                          DataRows(file)[j] \notin Range(DataRows(pre))})
        /\ op.ok =>
               op.count = Cardinality({i \in 1..Len(Records(pre)) :
                                          Records(pre)[i].Status = "Done"})
        /\ \A i \in 1..Len(DataRows(pre)) :
               DataRows(pre)[i] \notin Range(DataRows(file)) =>
                   ArchiveLine(DataRows(pre)[i]) \in Range(Appended)

\* C32: an archive_done call that meets no I/O error leaves every record
\* whose status is not Done as it was, in all fields and in the same
\* relative order, and changes only status and last_completed_on of a
\* recurring Done record it resets.
C32_ArchiveFrame ==
    (op.name = "archive_done" /\ op.fail = "none") =>
        LET done == {Records(pre)[i].ID : i \in
                        {k \in 1..Len(Records(pre)) : Records(pre)[k].Status = "Done"}}
        IN  /\ SelectSeq(DataRows(file), LAMBDA r : Rec(r).ID \notin done)
                 = SelectSeq(DataRows(pre), LAMBDA r : Rec(r).Status # "Done")
            /\ \A j \in 1..Len(Records(file)) :
                   Records(file)[j].ID \in done =>
                       \E i \in 1..Len(Records(pre)) :
                           /\ Records(pre)[i].ID = Records(file)[j].ID
                           /\ \/ file = pre
                              \/ Records(file)[j] =
                                    [Records(pre)[i] EXCEPT
                                        !.Status = "Pending",
                                        !.LastCompleted = DateStr(today)]

\* a specific_days record with its days was reset next to a record that
\* was not Done
C32_Witness ==
    /\ op.name = "archive_done" /\ op.fail = "none" /\ op.count > 0
    /\ \E i \in 1..Len(Records(pre)) : Records(pre)[i].Status = "Pending"
    /\ \E j \in 1..Len(Records(file)) :
          /\ Records(file)[j].Repeat = "specific_days"
          /\ Records(file)[j].Days # ""
          /\ Records(file)[j].LastCompleted = DateStr(today)
          /\ DataRows(file)[j] \notin Range(DataRows(pre))

\* C33: when an archive_done call appended records to the archive document
\* and then failed before the store was rewritten (returning 0), the
\* archive_done call that follows appends none of those records again.
C33_ArchiveRetryNoDuplicate ==
    [][(/\ op.name = "archive_done"
        /\ op.fail \in {OpenFail, WriteFail}
        /\ op.count = 0
        /\ op'.name = "archive_done"
        /\ archive' # archive)
       => \A k \in AppendedRecordLines :
              \A r \in Range(DataRows(pre)) :
                  (Rec(r).Status = "Done" /\ ArchiveLine(r) = Appended[k]) =>
                      Appended[k] \notin Range(Appended')
      ]_vars

----------------------------------------------------------------------------
(* The hourly summary *)

\* C34: when the summary thread of a check-in has finished, the row it
\* wrote describes the hour that ended at that check-in: task count, total
\* duration, tickets and start time are those of that hour (an hour with
\* no task has no row).
C34_SummaryDescribesItsHour ==
    hourly.thread.pc = "done" => hourly.written = hourly.expected

----------------------------------------------------------------------------
(* The column order after migration *)

\* C35: initialize() on an existing file whose header is a prefix of the
\* current column list leaves the header equal to the code's column list;
\* on a file with that header the Status update_status writes, the
\* CommittedAt set_committed and clear_committed write and the Status and
\* LastCompleted archive_done writes (and the Repeat it reads) are the
\* fields get_all returns under those names.
C35_ColumnOrderAfterMigration ==
    /\ (/\ op.name = "initialize"
        /\ pre.exists /\ pre.rows # <<>>
        /\ Len(pre.rows[1]) <= Len(HEADERS)
        /\ pre.rows[1] = SubSeq(HEADERS, 1, Len(pre.rows[1]))) => file.rows[1] = HEADERS
    /\ (Initialized(pre) /\ op.ok /\ op.id \in Ids(pre)) =>
           LET k == FirstWithId(pre, op.id)
           IN  /\ op.name = "update_status" =>
                      Field(GetAll(file)[k], "Status") = op.status
               /\ op.name = "set_committed" =>
                      /\ Field(GetAll(file)[k], "CommittedAt") \notin {"", NoneVal}
                      /\ Field(GetAll(file)[k], "CommittedAt") = Records(file)[k].CommittedAt
               /\ op.name = "clear_committed" =>
                      Field(GetAll(file)[k], "CommittedAt") = ""
    /\ (Initialized(pre) /\ op.name = "archive_done" /\ op.count > 0) =>
           /\ Len(GetAll(file)) = Len(Records(file))
           /\ \A k \in 1..Len(Records(file)) :
                  /\ \A name \in {"Repeat", "Status", "LastCompleted"} :
                         Field(GetAll(file)[k], name) = Records(file)[k][name]
                  /\ DataRows(file)[k] \notin Range(DataRows(pre)) =>
                         /\ Field(GetAll(file)[k], "Status") = "Pending"
                         /\ Field(GetAll(file)[k], "LastCompleted") = DateStr(today)
                         /\ Field(GetAll(file)[k], "Repeat")
                                \in {"daily", "specific_days"}

\* a file of an older version was migrated and a commitment was then
\* written to its record
C35_Witness ==
    /\ op.name = "set_committed" /\ op.ok
    /\ Initialized(file)
    /\ \E k \in 1..Len(Records(file)) :
          /\ Records(file)[k].ID = op.id
          /\ Records(file)[k].Task = "Old task"
          /\ Field(GetAll(file)[k], "CommittedAt") # ""

----------------------------------------------------------------------------
(* The record add_todo reports as added *)

\* C36: whenever add_todo returns true, get_all_todos of the file it left
\* contains a record with the id add_todo chose and the task it was given,
\* also when the file was missing or held no row before the call.
C36_AddedRecordIsListed ==
    (op.name = "add" /\ op.ok) =>
        \E k \in 1..Len(GetAll(file)) :
            /\ Field(GetAll(file)[k], "ID") = op.newid
            /\ Field(GetAll(file)[k], "Task") = op.inp.task

----------------------------------------------------------------------------
(* Tracking sessions *)

\* C37: in every state reached by Start Day, check-in timers firing and
\* Stop / End Day, at most one hourly check-in callback is pending.
C37_OneCheckinTimer ==
    Cardinality(PendingFor(app, "hourly_checkin")) <= 1

\* the titles of the day markers of the work log, in file order
MarkerTitles ==
    LET RECURSIVE Of(_)
        Of(n) == IF n = 0 THEN <<>>
                 ELSE IF worklog[n].Title \in {"DAY STARTED", "DAY ENDED"}
                      THEN Append(Of(n - 1), worklog[n].Title)
                      ELSE Of(n - 1)
    IN  Of(Len(worklog))

\* C38: the day markers of the work log alternate, DAY STARTED first: a
\* session logs one DAY STARTED and at most one DAY ENDED after it, and
\* exactly one once the tracker has stopped and no stop is under way.
C38_OneEndMarkerPerSession ==
    /\ \A i \in 1..Len(MarkerTitles) :
           MarkerTitles[i] = (IF i % 2 = 1 THEN "DAY STARTED" ELSE "DAY ENDED")
    /\ (~app.is_running /\ app.stopping = 0) => Len(MarkerTitles) % 2 = 0

====
